---- MODULE Spec2Model ----
(***************************************************************************)
(* Ticket routing of the Protecta support desks.                           *)
(*                                                                         *)
(* The orchestrator agent (agents/decisor/main.py) keeps a process-wide    *)
(* registry of desks (ESTADO_MESAS) and a waiting queue (_COLA).  Its      *)
(* /asignar handler is an "async def" without any await: the event loop    *)
(* runs it from its first line to its return without interleaving another  *)
(* request, so one handler run is one step of the state machine.           *)
(*                                                                         *)
(* Numbers.  _porcentaje is the float (actual / max) * 100.  It is kept    *)
(* here as the exact fraction <<100 * actual, max>>; for every capacity    *)
(* below 400 the float comparison with 90 and the float ordering of two    *)
(* desks agree with the exact ones (checked exhaustively), so fractions    *)
(* are compared by cross-multiplication.                                   *)
(*                                                                         *)
(* Text.  producto and tipo_atencion_sd are free text that the code only   *)
(* lower-cases and searches for keywords.  A text is a sequence of         *)
(* fragments; lower() maps every fragment to its lower-case form and       *)
(* "kw in text" holds when a fragment of the text is kw.                   *)
(***************************************************************************)
EXTENDS Integers, Sequences, FiniteSets, Bags, TLC

VARIABLES
    ESTADO_MESAS,   \* decisor: the desk registry, in dict insertion order
    _COLA,          \* decisor: the waiting queue
    atendida,       \* the last /asignar run: request, registry it read, response
    restantes,      \* requests still to be served one at a time in this behaviour
    porEnviar,      \* concurrent clients: requests not yet sent (bag)
    pendientes,     \* concurrent clients: requests sent, handler not yet run (bag)
    respuestas,     \* concurrent clients: responses received (bag)
    ESTADO_CAPACIDAD, \* capacity agent: its own desk registry
    leido,          \* the body of the last read request (GET)
    consulta,       \* decisor: one call of _mesa_por_producto, arguments and result
    pipeline,       \* one run of the derivation pipeline: its position and locals
    api             \* API: its clock, the tickets submitted and the pipeline runs started

vars == <<ESTADO_MESAS, _COLA, atendida, restantes, porEnviar, pendientes, respuestas,
          ESTADO_CAPACIDAD, leido, consulta, pipeline, api>>

\* Python's None, for string-valued fields.
None == "None"

\* No /asignar run yet.
SinAtender == [estado |-> "ninguna"]

-----------------------------------------------------------------------------
(* Bounds of the model. *)

\* Requests served one at a time in one behaviour, from the registry as shipped.
MaxSolicitudes == 4

\* Requests served one at a time in one behaviour, from a loaded registry.
MaxSolicitudesCargado == 2

\* Requests the concurrent clients send in one behaviour.
MaxConcurrentes == 3

\* Largest desk capacity (and number of calls) of the stress scenario.
MaxEstres == 10

\* Largest capacity of the synthetic load/capacity pairs.
MaxCapacidad == 20

\* Fragments of a product text and of an attention-type text handed to the
\* product rules.
MaxFragmentosProducto == 1
MaxFragmentosTipo == 2

\* Tickets submitted to the API in one behaviour, and readings of its clock.
MaxTickets == 2
MaxReloj == 2

-----------------------------------------------------------------------------
(* The registry as shipped. *)

ESTADO_INICIAL ==
    << [mesa |-> "Service Desk 1",        nivel |-> "N1", especialidad |-> "Soporte general",   max |-> 20, actual |-> 12],
       [mesa |-> "Service Desk 2",        nivel |-> "N1", especialidad |-> "Soporte general",   max |-> 20, actual |-> 8],
       [mesa |-> "Squad - Mesa Ongoing",  nivel |-> "N2", especialidad |-> "Escalamiento",      max |-> 15, actual |-> 10],
       [mesa |-> "soportedigital",        nivel |-> "N3", especialidad |-> "Ecommerce/Digital", max |-> 10, actual |-> 5],
       [mesa |-> "soporteapp",            nivel |-> "N3", especialidad |-> "Facturacion/Apps",  max |-> 10, actual |-> 7],
       [mesa |-> "Squad - Mesa Vida Ley", nivel |-> "N3", especialidad |-> "Vida Ley",          max |-> 8,  actual |-> 3],
       [mesa |-> "Squad - Mesa SCTR",     nivel |-> "N3", especialidad |-> "SCTR",              max |-> 8,  actual |-> 6],
       [mesa |-> "Squad - Mesa SOAT",     nivel |-> "N3", especialidad |-> "SOAT",              max |-> 8,  actual |-> 4] >>

\* The keys of a registry, in order.
Claves(E) == [i \in DOMAIN E |-> E[i].mesa]

\* "mesa in ESTADO_MESAS".
EnRegistro(E, mesa) == \E i \in DOMAIN E : E[i].mesa = mesa

\* ESTADO_MESAS[mesa], for a key of the registry.
Datos(E, mesa) == E[CHOOSE i \in DOMAIN E : E[i].mesa = mesa]

-----------------------------------------------------------------------------
(* Fractions <<numerator, denominator>> with a positive denominator. *)

Menor(p, q) == p[1] * q[2] < q[1] * p[2]

MenorOIgual(p, q) == p[1] * q[2] <= q[1] * p[2]

\* round(x, 1) of a fraction, in tenths (ties to even).
Redondeo1(p) ==
    LET n == 10 * p[1]
        q == n \div p[2]
        r == n % p[2]
    IN  IF 2 * r < p[2] THEN q
        ELSE IF 2 * r > p[2] THEN q + 1
        ELSE IF q % 2 = 0 THEN q ELSE q + 1

-----------------------------------------------------------------------------
(* Decisor: load and availability. *)

\* (m["actual"] / m["max"]) * 100
_porcentaje(E, mesa) == <<100 * Datos(E, mesa).actual, Datos(E, mesa).max>>

\* The policy threshold of _disponible, in percent.
UMBRAL == 90

\* The threshold of the capacity agent, in percent.
UMBRAL_CAPACIDAD == 90

\* Variant: the comparison with the threshold is not strict.
_disponible_le(E, mesa) == MenorOIgual(_porcentaje(E, mesa), <<UMBRAL, 1>>)

\* _porcentaje(mesa) < 90
_disponible(E, mesa) == Menor(_porcentaje(E, mesa), <<UMBRAL, 1>>)

\* Variant: an unstable sort, x goes before the elements of equal key.
Insertar_inestable(E, orden, x) ==
    LET k == Cardinality({i \in DOMAIN orden :
                 Menor(_porcentaje(E, orden[i]), _porcentaje(E, x))})
    IN  SubSeq(orden, 1, k) \o <<x>> \o SubSeq(orden, k + 1, Len(orden))

\* list.sort(key=_porcentaje) is stable: insert x after every element whose
\* key is not greater than x's.
Insertar(E, orden, x) ==
    LET k == Cardinality({i \in DOMAIN orden :
                 MenorOIgual(_porcentaje(E, orden[i]), _porcentaje(E, x))})
    IN  SubSeq(orden, 1, k) \o <<x>> \o SubSeq(orden, k + 1, Len(orden))

RECURSIVE Ordenar(_, _)
Ordenar(E, mesas) ==
    IF mesas = <<>> THEN <<>>
    ELSE Insertar(E, Ordenar(E, SubSeq(mesas, 1, Len(mesas) - 1)), mesas[Len(mesas)])

\* The desks of one tier, least loaded first.
_candidatas_por_nivel(E, nivel) ==
    Ordenar(E, SelectSeq(Claves(E), LAMBDA m : Datos(E, m).nivel = nivel))

-----------------------------------------------------------------------------
(* Decisor: product rules. *)

\* str.lower() on the fragments the model uses.
Minuscula(f) ==
    CASE f = "SCTR" -> "sctr"
      [] f = "SOAT" -> "soat"
      [] f = "Vida Ley" -> "vida ley"
      [] f = "Ecommerce" -> "ecommerce"
      [] f = "Factura" -> "factura"
      [] f = "VIDA LEY" -> "vida ley"
      [] f = "Sctr" -> "sctr"
      [] f = "Soat" -> "soat"
      [] f = "ECOMMERCE" -> "ecommerce"
      [] f = "Digital" -> "digital"
      [] f = "Web" -> "web"
      [] f = "WEB" -> "web"
      [] f = "Planilla" -> "planilla"
      [] f = "Conciliacion" -> "conciliacion"
      [] f = "Consulta" -> "consulta"
      [] f = "Incidente" -> "incidente"
      [] f = "Solicitud" -> "solicitud"
      [] OTHER -> f

lower(texto) == [i \in DOMAIN texto |-> Minuscula(texto[i])]

\* kw in texto
In(kw, texto) == \E i \in DOMAIN texto : texto[i] = kw

\* Variant: the sctr rule is tried before the vida ley rule, and the billing
\* rule before the digital rule.
_mesa_por_producto_otro_orden(producto, tipo_sd) ==
    LET prod == lower(producto)
        tipo == lower(tipo_sd)
    IN  IF In("sctr", prod) \/ In("sctr", tipo) THEN "Squad - Mesa SCTR"
        ELSE IF In("vida ley", prod) \/ In("vida ley", tipo) THEN "Squad - Mesa Vida Ley"
        ELSE IF In("soat", prod) \/ (In("soat", tipo) /\ In("ecommerce", tipo)) THEN "Squad - Mesa SOAT"
        ELSE IF In("factura", tipo) \/ In("planilla", tipo) \/ In("conciliacion", tipo) THEN "soporteapp"
        ELSE IF In("ecommerce", tipo) \/ In("digital", tipo) \/ In("web", tipo) THEN "soportedigital"
        ELSE None

_mesa_por_producto(producto, tipo_sd) ==
    LET prod == lower(producto)
        tipo == lower(tipo_sd)
    IN  IF In("vida ley", prod) \/ In("vida ley", tipo) THEN "Squad - Mesa Vida Ley"
        ELSE IF In("sctr", prod) \/ In("sctr", tipo) THEN "Squad - Mesa SCTR"
        ELSE IF In("soat", prod) \/ (In("soat", tipo) /\ In("ecommerce", tipo)) THEN "Squad - Mesa SOAT"
        ELSE IF In("ecommerce", tipo) \/ In("digital", tipo) \/ In("web", tipo) THEN "soportedigital"
        ELSE IF In("factura", tipo) \/ In("planilla", tipo) \/ In("conciliacion", tipo) THEN "soporteapp"
        ELSE None

-----------------------------------------------------------------------------
(* Decisor: the routing cascade. *)

\* Variant: the least loaded desk of the tier is taken without the availability test.
PrimeraDisponible_sin_comprobar(E, nivel) ==
    IF _candidatas_por_nivel(E, nivel) = <<>> THEN None
    ELSE _candidatas_por_nivel(E, nivel)[1]

\* The inner loop "for mesa in _candidatas_por_nivel(nivel): if _disponible(mesa)":
\* the first available desk of the tier, least loaded first; None if there is none.
PrimeraDisponible(E, nivel) ==
    LET c == _candidatas_por_nivel(E, nivel)
        libres == {i \in DOMAIN c : _disponible(E, c[i])}
    IN  IF libres = {} THEN None
        ELSE c[CHOOSE i \in libres : \A j \in libres : i <= j]

\* A reason string: its literal and interpolated text, and the numbers
\* interpolated into it (the load, in tenths of a percent).
Razon(texto, valores) == [texto |-> texto, valores |-> valores]

\* A returned decision, and an exception raised while deciding.
Decision(mesa, nivel, en_cola, razon) ==
    [error |-> None, mesa |-> mesa, nivel |-> nivel, en_cola |-> en_cola, razon |-> razon]

Excepcion(e) == [error |-> e]

\* Variant: the fallback tier is tried first.
Niveles_invertidos(nivel_recomendado) ==
    IF nivel_recomendado \in {"N1", "baja", "media"} THEN <<"N1">> ELSE <<"N1", "N2">>

\* The candidate tiers of the normal case.
Niveles(nivel_recomendado) ==
    IF nivel_recomendado \in {"N1", "baja", "media"} THEN <<"N1">> ELSE <<"N2", "N1">>

\* Variant: the queue is always on the first N1 desk of the registry.
CasoNormal_cola_fija(E, nivel_recomendado, complejidad) ==
    LET niveles == Niveles(nivel_recomendado)
        con == {i \in DOMAIN niveles : PrimeraDisponible(E, niveles[i]) # None}
    IN  IF con # {}
        THEN LET nivel == niveles[CHOOSE i \in con : \A j \in con : i <= j]
                 mesa == PrimeraDisponible(E, nivel)
             IN  Decision(mesa, nivel, FALSE,
                          Razon(<<"Complejidad ", complejidad, " -> ", nivel, " (", mesa,
                                  ", carga ", "%)">>,
                                <<Redondeo1(_porcentaje(E, mesa))>>))
        ELSE Decision("Service Desk 1", "N1", TRUE,
                      Razon(<<"Todas las mesas N1/N2 saturadas -> en cola de espera">>, <<>>))

\* Variant: without an available desk, the first of an empty list is taken.
CasoNormal_sin_cola(E, nivel_recomendado, complejidad) ==
    LET niveles == Niveles(nivel_recomendado)
        con == {i \in DOMAIN niveles : PrimeraDisponible(E, niveles[i]) # None}
    IN  IF con # {}
        THEN LET nivel == niveles[CHOOSE i \in con : \A j \in con : i <= j]
                 mesa == PrimeraDisponible(E, nivel)
             IN  Decision(mesa, nivel, FALSE,
                          Razon(<<"Complejidad ", complejidad, " -> ", nivel, " (", mesa,
                                  ", carga ", "%)">>,
                                <<Redondeo1(_porcentaje(E, mesa))>>))
        ELSE Excepcion("IndexError")

\* Lines 119-131: the normal case, then the queue on the least loaded N1 desk.
CasoNormal(E, nivel_recomendado, complejidad) ==
    LET niveles == Niveles(nivel_recomendado)
        con == {i \in DOMAIN niveles : PrimeraDisponible(E, niveles[i]) # None}
    IN  IF con # {}
        THEN LET nivel == niveles[CHOOSE i \in con : \A j \in con : i <= j]
                 mesa == PrimeraDisponible(E, nivel)
             IN  Decision(mesa, nivel, FALSE,
                          Razon(<<"Complejidad ", complejidad, " -> ", nivel, " (", mesa,
                                  ", carga ", "%)">>,
                                <<Redondeo1(_porcentaje(E, mesa))>>))
        ELSE IF _candidatas_por_nivel(E, "N1") = <<>>
        THEN Excepcion("IndexError")
        ELSE Decision(_candidatas_por_nivel(E, "N1")[1], "N1", TRUE,
                      Razon(<<"Todas las mesas N1/N2 saturadas -> en cola de espera">>, <<>>))

\* Variant: the product rule is called with its arguments swapped.
CasoN3_args_invertidos(E, nivel_recomendado, complejidad, tipo_atencion_sd, producto) ==
    LET mesa_n3 == _mesa_por_producto(tipo_atencion_sd, producto)
    IN  IF mesa_n3 # None /\ ~EnRegistro(E, mesa_n3)
        THEN Excepcion("KeyError")
        ELSE IF mesa_n3 # None /\ _disponible(E, mesa_n3)
        THEN Decision(mesa_n3, "N3", FALSE, Razon(<<"Complejidad MUY_ALTA -> N3 (", mesa_n3, ")">>, <<>>))
        ELSE IF PrimeraDisponible(E, "N2") # None
        THEN Decision(PrimeraDisponible(E, "N2"), "N2", FALSE, Razon(<<"N3 saturada -> escalado a N2">>, <<>>))
        ELSE CasoNormal(E, nivel_recomendado, complejidad)

\* Variant: a saturated specialist desk sends the ticket to the N1 case.
CasoN3_sin_escalado(E, nivel_recomendado, complejidad, tipo_atencion_sd, producto) ==
    LET mesa_n3 == _mesa_por_producto(producto, tipo_atencion_sd)
    IN  IF mesa_n3 # None /\ ~EnRegistro(E, mesa_n3)
        THEN Excepcion("KeyError")
        ELSE IF mesa_n3 # None /\ _disponible(E, mesa_n3)
        THEN Decision(mesa_n3, "N3", FALSE, Razon(<<"Complejidad MUY_ALTA -> N3 (", mesa_n3, ")">>, <<>>))
        ELSE CasoNormal(E, "N1", complejidad)

\* Lines 107-117: the specialist branch; it falls through to the normal case.
CasoN3(E, nivel_recomendado, complejidad, tipo_atencion_sd, producto) ==
    LET mesa_n3 == _mesa_por_producto(producto, tipo_atencion_sd)
    IN  IF mesa_n3 # None /\ ~EnRegistro(E, mesa_n3)
        THEN Excepcion("KeyError")
        ELSE IF mesa_n3 # None /\ _disponible(E, mesa_n3)
        THEN Decision(mesa_n3, "N3", FALSE, Razon(<<"Complejidad MUY_ALTA -> N3 (", mesa_n3, ")">>, <<>>))
        ELSE IF PrimeraDisponible(E, "N2") # None
        THEN Decision(PrimeraDisponible(E, "N2"), "N2", FALSE, Razon(<<"N3 saturada -> escalado a N2">>, <<>>))
        ELSE CasoNormal(E, nivel_recomendado, complejidad)

\* Lines 96-105: a historical precedent goes to N1, then N2, then the queue.
CasoHistorico(E) ==
    IF PrimeraDisponible(E, "N1") # None
    THEN Decision(PrimeraDisponible(E, "N1"), "N1", FALSE, Razon(<<"Historico detectado -> forzado a ", "N1">>, <<>>))
    ELSE IF PrimeraDisponible(E, "N2") # None
    THEN Decision(PrimeraDisponible(E, "N2"), "N2", FALSE, Razon(<<"Historico detectado -> forzado a ", "N2">>, <<>>))
    ELSE Decision("Service Desk 1", "N1", TRUE, Razon(<<"Historico: N1/N2 saturados -> cola">>, <<>>))

\* Variant: the specialist branch is entered on either condition.
asignar_mesa_con_una_condicion(E, nivel_recomendado, complejidad, tipo_atencion_sd, producto, via_historico) ==
    IF via_historico
    THEN CasoHistorico(E)
    ELSE IF nivel_recomendado = "N3" \/ complejidad = "muy_alta"
    THEN CasoN3(E, nivel_recomendado, complejidad, tipo_atencion_sd, producto)
    ELSE CasoNormal(E, nivel_recomendado, complejidad)

asignar_mesa(E, nivel_recomendado, complejidad, tipo_atencion_sd, producto, via_historico) ==
    IF via_historico
    THEN CasoHistorico(E)
    ELSE IF nivel_recomendado = "N3" /\ complejidad = "muy_alta"
    THEN CasoN3(E, nivel_recomendado, complejidad, tipo_atencion_sd, producto)
    ELSE CasoNormal(E, nivel_recomendado, complejidad)

-----------------------------------------------------------------------------
(* Decisor: the /asignar handler. *)

\* Python's "x or d" on an optional string.
O(x, d) == IF x \in {None, ""} THEN d ELSE x

\* Variant: a precedent's desk is taken without looking at its load.
Decidir_sin_disponibilidad(E, solicitud) ==
    IF solicitud.via_historico /\ solicitud.mesa_historico \notin {None, ""}
    THEN IF ~EnRegistro(E, solicitud.mesa_historico)
         THEN Excepcion("KeyError")
         ELSE Decision(solicitud.mesa_historico,
                       Datos(E, solicitud.mesa_historico).nivel,
                       FALSE,
                       Razon(<<"Historico -> directamente a ", solicitud.mesa_historico>>, <<>>))
    ELSE asignar_mesa(E, O(solicitud.nivel_recomendado, "N1"),
                      O(solicitud.complejidad, "media"),
                      solicitud.tipo_atencion_sd, solicitud.producto,
                      solicitud.via_historico)

\* Variant: a precedent's desk that is no key of the registry counts as
\* saturated.
Decidir_desconocida_saturada(E, solicitud) ==
    IF solicitud.via_historico /\ solicitud.mesa_historico \notin {None, ""}
    THEN IF ~EnRegistro(E, solicitud.mesa_historico)
         THEN Decision(solicitud.mesa_historico, "N1", TRUE,
                       Razon(<<"Historico -> directamente a ", solicitud.mesa_historico>>, <<>>))
         ELSE Decision(solicitud.mesa_historico,
                       Datos(E, solicitud.mesa_historico).nivel,
                       ~_disponible(E, solicitud.mesa_historico),
                       Razon(<<"Historico -> directamente a ", solicitud.mesa_historico>>, <<>>))
    ELSE asignar_mesa(E, O(solicitud.nivel_recomendado, "N1"),
                      O(solicitud.complejidad, "media"),
                      solicitud.tipo_atencion_sd, solicitud.producto,
                      solicitud.via_historico)

\* Variant: the direct path answers the tier N1 whatever the desk.
Decidir_nivel_por_defecto(E, solicitud) ==
    IF solicitud.via_historico /\ solicitud.mesa_historico \notin {None, ""}
    THEN IF ~EnRegistro(E, solicitud.mesa_historico)
         THEN Excepcion("KeyError")
         ELSE Decision(solicitud.mesa_historico, "N1",
                       ~_disponible(E, solicitud.mesa_historico),
                       Razon(<<"Historico -> directamente a ", solicitud.mesa_historico>>, <<>>))
    ELSE asignar_mesa(E, O(solicitud.nivel_recomendado, "N1"),
                      O(solicitud.complejidad, "media"),
                      solicitud.tipo_atencion_sd, solicitud.producto,
                      solicitud.via_historico)

\* Lines 206-224: the decision of one request on the registry E.  A precedent
\* that names a desk goes to that desk directly; _disponible raises KeyError on
\* a name that is no key of the registry.
Decidir(E, solicitud) ==
    IF solicitud.via_historico /\ solicitud.mesa_historico \notin {None, ""}
    THEN IF ~EnRegistro(E, solicitud.mesa_historico)
         THEN Excepcion("KeyError")
         ELSE Decision(solicitud.mesa_historico,
                       Datos(E, solicitud.mesa_historico).nivel,
                       ~_disponible(E, solicitud.mesa_historico),
                       Razon(<<"Historico -> directamente a ", solicitud.mesa_historico>>, <<>>))
    ELSE asignar_mesa(E, O(solicitud.nivel_recomendado, "N1"),
                      O(solicitud.complejidad, "media"),
                      solicitud.tipo_atencion_sd, solicitud.producto,
                      solicitud.via_historico)

\* Variant: the load is incremented on every decision, without the clamp.
ActualizarCarga_sin_tope(E, d) ==
    [i \in DOMAIN E |->
        IF E[i].mesa = d.mesa
        THEN [E[i] EXCEPT !.actual = E[i].actual + 1]
        ELSE E[i]]

\* Variant: the clamped increment is applied to a queued decision too.
ActualizarCarga_tambien_en_cola(E, d) ==
    [i \in DOMAIN E |->
        IF E[i].mesa = d.mesa
        THEN [E[i] EXCEPT !.actual = IF E[i].actual + 1 <= E[i].max
                                     THEN E[i].actual + 1 ELSE E[i].max]
        ELSE E[i]]

\* Variant: an assignment to a full desk takes a ticket off the desk.
ActualizarCarga_decrece(E, d) ==
    [i \in DOMAIN E |->
        IF E[i].mesa = d.mesa /\ ~d.en_cola
        THEN [E[i] EXCEPT !.actual = IF E[i].actual + 1 < E[i].max
                                     THEN E[i].actual + 1 ELSE E[i].actual - 1]
        ELSE E[i]]

\* Variant: the place is taken on every desk of the tier of the decision.
ActualizarCarga_todo_el_nivel(E, d) ==
    [i \in DOMAIN E |->
        IF E[i].nivel = d.nivel /\ ~d.en_cola
        THEN [E[i] EXCEPT !.actual = IF E[i].actual + 1 < E[i].max
                                     THEN E[i].actual + 1 ELSE E[i].max]
        ELSE E[i]]

\* Lines 226-231: the load update for the decision d.
ActualizarCarga(E, d) ==
    [i \in DOMAIN E |->
        IF E[i].mesa = d.mesa /\ ~d.en_cola
        THEN [E[i] EXCEPT !.actual = IF E[i].actual + 1 <= E[i].max
                                     THEN E[i].actual + 1 ELSE E[i].max]
        ELSE E[i]]

\* Variant: the test of en_cola is inverted.
RegistrarCola_invertida(cola, solicitud, d) ==
    IF ~d.en_cola
    THEN Append(cola, [ticket_id |-> solicitud.ticket_id, mesa_objetivo |-> d.mesa])
    ELSE cola

\* Variant: the entry is put at the head of the queue.
RegistrarCola_al_frente(cola, solicitud, d) ==
    IF d.en_cola
    THEN <<[ticket_id |-> solicitud.ticket_id, mesa_objetivo |-> d.mesa]>> \o cola
    ELSE cola

\* Variant: a ticket that has an entry in the queue gets no second one.
RegistrarCola_sin_duplicados(cola, solicitud, d) ==
    IF d.en_cola /\ ~\E i \in DOMAIN cola : cola[i].ticket_id = solicitud.ticket_id
    THEN Append(cola, [ticket_id |-> solicitud.ticket_id, mesa_objetivo |-> d.mesa])
    ELSE cola

\* Lines 233-239: the queue entry for the decision d (the timestamp is left out).
RegistrarCola(cola, solicitud, d) ==
    IF d.en_cola
    THEN Append(cola, [ticket_id |-> solicitud.ticket_id, mesa_objetivo |-> d.mesa])
    ELSE cola

\* Lines 241-265: the response (the fields echoed from the request other
\* than ticket_id, complejidad and via_historico, and the timestamp, are left out).
RespuestaOrquestador(solicitud, d) ==
    [status |-> 200,
     ticket_id |-> solicitud.ticket_id,
     mesa_asignada |-> d.mesa,
     nivel_asignado |-> d.nivel,
     en_cola |-> d.en_cola,
     complejidad |-> O(solicitud.complejidad, "media"),
     via_historico |-> solicitud.via_historico,
     razonamiento |->
        IF solicitud.via_historico /\ solicitud.resolucion_referencia \notin {None, ""}
        THEN Razon(<<"Ticket similar en historico -> Asignar a ", d.nivel, " (", d.mesa,
                     ") | Como se resolvio antes: ", solicitud.resolucion_referencia>>, <<>>)
        ELSE Razon(<<"Complejidad: ", O(solicitud.complejidad, "media"), " | ">> \o d.razon.texto,
                   d.razon.valores)]

\* Lines 267-268: any exception becomes an HTTP 500.
HTTPException(solicitud, e) ==
    [status |-> 500, ticket_id |-> solicitud.ticket_id, detail |-> e]

\* Lines 226-268: what one run of the handler leaves, on registry E and queue
\* cola, once it has taken the decision d.
Ejecutar(E, cola, solicitud, d) ==
    IF d.error # None
    THEN [ESTADO |-> E, COLA |-> cola, respuesta |-> HTTPException(solicitud, d.error)]
    ELSE [ESTADO |-> ActualizarCarga(E, d),
          COLA |-> RegistrarCola(cola, solicitud, d),
          respuesta |-> RespuestaOrquestador(solicitud, d)]

\* POST /asignar: the decision, then its effects.
asignar(E, cola, solicitud) == Ejecutar(E, cola, solicitud, Decidir(E, solicitud))

-----------------------------------------------------------------------------
(* Read requests. *)

\* Nothing read yet.
SinLeer == [op |-> "ninguna"]

\* _mesa_por_producto not called on its own yet.
SinConsultar == [estado |-> "ninguna"]

\* No pipeline run started.
SinEjecutar == [pc |-> "ninguno"]

\* The API has received nothing.
SinApi == [reloj |-> 0, envios |-> <<>>, ejecuciones |-> <<>>]

\* GET /mesas/estado: every desk with its rounded load and its availability.
estado_mesas(E) ==
    [i \in DOMAIN E |->
        [mesa |-> E[i].mesa, nivel |-> E[i].nivel, especialidad |-> E[i].especialidad,
         max |-> E[i].max, actual |-> E[i].actual,
         porcentaje |-> Redondeo1(_porcentaje(E, E[i].mesa)),
         disponible |-> _disponible(E, E[i].mesa)]]

\* GET /cola
ver_cola(cola) == [en_cola |-> Len(cola), tickets |-> cola]

\* The capacity agent's registry as shipped.
CAPACIDAD_INICIAL ==
    << [mesa |-> "Service Desk 1",        especialidad |-> "N1 - Soporte General",           max_tickets |-> 20, carga_actual |-> 12],
       [mesa |-> "Service Desk 2",        especialidad |-> "N1 - Soporte General",           max_tickets |-> 20, carga_actual |-> 8],
       [mesa |-> "Squad - Mesa Ongoing",  especialidad |-> "N2 - Soporte Avanzado",          max_tickets |-> 15, carga_actual |-> 10],
       [mesa |-> "soportedigital",        especialidad |-> "N3 - Digital y E-commerce",      max_tickets |-> 10, carga_actual |-> 5],
       [mesa |-> "soporteapp",            especialidad |-> "N3 - Aplicativos y Facturacion", max_tickets |-> 10, carga_actual |-> 4],
       [mesa |-> "Squad - Mesa Vida Ley", especialidad |-> "N3 - Producto Vida Ley",         max_tickets |-> 8,  carga_actual |-> 3],
       [mesa |-> "Squad - Mesa SCTR",     especialidad |-> "N3 - Producto SCTR",             max_tickets |-> 8,  carga_actual |-> 2] >>

\* round(x, 2) of a fraction, in hundredths (ties to even).
Redondeo2(p) == Redondeo1(<<10 * p[1], p[2]>>)

\* Capacity agent: the capacity record of one desk of its registry.
calcular_capacidad_mesa(EC, mesa_id) ==
    LET estado == EC[CHOOSE i \in DOMAIN EC : EC[i].mesa = mesa_id]
        porcentaje == <<100 * estado.carga_actual, estado.max_tickets>>
    IN  [mesa |-> mesa_id, especialidad |-> estado.especialidad,
         max_tickets |-> estado.max_tickets, carga_actual |-> estado.carga_actual,
         porcentaje_uso |-> Redondeo2(porcentaje),
         disponible |-> Menor(porcentaje, <<UMBRAL_CAPACIDAD, 1>>)]

\* GET /capacidad/todas
obtener_todas_capacidades(EC) ==
    [i \in DOMAIN EC |-> calcular_capacidad_mesa(EC, EC[i].mesa)]

-----------------------------------------------------------------------------
(* The requests the clients send. *)

TicketIds == {"TK-1"}

\* (producto, tipo_atencion_sd): no product rule, the SCTR rule, the digital rule.
Textos == { <<<<>>, <<"consulta">>>>, <<<<"SCTR">>, <<"consulta">>>>, <<<<>>, <<"Ecommerce">>>> }

Solicitud(id, nivel, complejidad, texto, via, mesa, ref) ==
    [ticket_id |-> id, nivel_recomendado |-> nivel, complejidad |-> complejidad,
     producto |-> texto[1], tipo_atencion_sd |-> texto[2],
     via_historico |-> via, mesa_historico |-> mesa, resolucion_referencia |-> ref]

\* Requests without a historical precedent.
SolicitudesNormales ==
    { Solicitud(id, nivel, c, t, FALSE, None, None) :
        id \in TicketIds, nivel \in {"N1", "N2", "N3", "baja", "media"},
        c \in {"alta", "muy_alta"}, t \in Textos }

\* Requests with a historical precedent: without a desk, with a desk of each
\* tier, and with a name that is no desk.
SolicitudesHistoricas ==
    { Solicitud(id, nc[1], nc[2], <<<<"SCTR">>, <<"consulta">>>>, TRUE, m,
                IF m = None THEN None ELSE "REF-1") :
        id \in TicketIds, nc \in {<<"N1", "alta">>, <<"N3", "muy_alta">>},
        m \in {None, "Service Desk 1", "Squad - Mesa Ongoing", "Squad - Mesa SCTR",
               "Mesa Desconocida"} }

Solicitudes == SolicitudesNormales \cup SolicitudesHistoricas

-----------------------------------------------------------------------------
(* Actions. *)

\* What a handler run leaves in "atendida".
Atendida(E, solicitud, respuesta) ==
    [estado |-> "atendida", solicitud |-> solicitud, antes |-> E, respuesta |-> respuesta]

\* One /asignar request served with no other request in flight.
Asignar(solicitud) ==
    /\ restantes > 0
    /\ \E r \in {asignar(ESTADO_MESAS, _COLA, solicitud)} :
           /\ ESTADO_MESAS' = r.ESTADO
           /\ _COLA' = r.COLA
           /\ atendida' = Atendida(ESTADO_MESAS, solicitud, r.respuesta)
    /\ restantes' = restantes - 1
    /\ UNCHANGED <<porEnviar, pendientes, respuestas, ESTADO_CAPACIDAD, leido, consulta, pipeline, api>>

\* A client sends one of its requests; the server accepts it.
Enviar(solicitud) ==
    /\ BagIn(solicitud, porEnviar)
    /\ porEnviar' = porEnviar (-) SetToBag({solicitud})
    /\ pendientes' = pendientes (+) SetToBag({solicitud})
    /\ UNCHANGED <<ESTADO_MESAS, _COLA, atendida, restantes, respuestas, ESTADO_CAPACIDAD, leido, consulta, pipeline, api>>

\* The event loop runs the handler of one accepted request, start to end.
Atender(solicitud) ==
    /\ BagIn(solicitud, pendientes)
    /\ \E r \in {asignar(ESTADO_MESAS, _COLA, solicitud)} :
           /\ ESTADO_MESAS' = r.ESTADO
           /\ _COLA' = r.COLA
           /\ atendida' = Atendida(ESTADO_MESAS, solicitud, r.respuesta)
           /\ respuestas' = respuestas (+) SetToBag({r.respuesta})
    /\ pendientes' = pendientes (-) SetToBag({solicitud})
    /\ UNCHANGED <<porEnviar, restantes, ESTADO_CAPACIDAD, leido, consulta, pipeline, api>>

\* GET /mesas/estado on the orchestrator.
EstadoMesas ==
    /\ leido' = [op |-> "mesas/estado", cuerpo |-> estado_mesas(ESTADO_MESAS)]
    /\ UNCHANGED <<ESTADO_MESAS, _COLA, atendida, restantes, porEnviar, pendientes,
                   respuestas, ESTADO_CAPACIDAD, consulta, pipeline, api>>

\* GET /capacidad/todas on the capacity agent.
CapacidadTodas ==
    /\ leido' = [op |-> "capacidad/todas",
                 cuerpo |-> obtener_todas_capacidades(ESTADO_CAPACIDAD)]
    /\ UNCHANGED <<ESTADO_MESAS, _COLA, atendida, restantes, porEnviar, pendientes,
                   respuestas, ESTADO_CAPACIDAD, consulta, pipeline, api>>

\* One call _mesa_por_producto(producto, tipo_sd): the arguments stay, the
\* value returned is added.
ConsultarProducto ==
    /\ consulta.estado = "pendiente"
    /\ consulta' = [estado |-> "hecha", producto |-> consulta.producto,
                    tipo_sd |-> consulta.tipo_sd,
                    mesa |-> _mesa_por_producto(consulta.producto, consulta.tipo_sd)]
    /\ UNCHANGED <<ESTADO_MESAS, _COLA, atendida, restantes, porEnviar, pendientes,
                   respuestas, ESTADO_CAPACIDAD, leido, pipeline, api>>

\* GET /cola on the orchestrator.
VerCola ==
    /\ leido' = [op |-> "cola", cuerpo |-> ver_cola(_COLA)]
    /\ UNCHANGED <<ESTADO_MESAS, _COLA, atendida, restantes, porEnviar, pendientes,
                   respuestas, ESTADO_CAPACIDAD, consulta, pipeline, api>>

-----------------------------------------------------------------------------
(* The derivation pipeline (services/pipeline.py, and with the same steps    *)
(* api/main.py): Historico, Estimador, Complejidad, then the orchestrator.   *)
(* Every "await client.post" is a point where the run is suspended; the code *)
(* between two of them is one step.  What a collaborator answers is an input *)
(* of the model.  An optional number is <<>> (None) or <<n>>; numbers are    *)
(* written into the trace with ToString.                                     *)

\* None, for an optional number.
Null == <<>>

\* dict.get(k, por_defecto)
Get(d, k, por_defecto) == IF k \in DOMAIN d THEN d[k] ELSE por_defecto

\* What a call may end in: a JSON body of the agent ("ok"), the JSON body of
\* an HTTP error ("error_http"), or an exception of the client ("excepcion":
\* the connection fails, the 12 s timeout expires).
Causas == {"ConnectError", "ReadTimeout"}

Excepciones == { [clase |-> "excepcion", causa |-> c] : c \in Causas }

ErrorHTTP == [clase |-> "error_http", cuerpo |-> [detail |-> "Internal Server Error"]]

RespuestasHistorico ==
    { [clase |-> "ok",
       cuerpo |-> [encontrado |-> TRUE, mesa_sugerida |-> "Service Desk 1",
                   nivel_sugerido |-> "N1", resolucion_referencia |-> "REF-1",
                   razonamiento |-> <<"Antecedente similar resuelto en N1">>]],
      [clase |-> "ok",
       cuerpo |-> [encontrado |-> FALSE, mesa_sugerida |-> None,
                   nivel_sugerido |-> None, resolucion_referencia |-> None,
                   razonamiento |-> <<"Sin antecedentes similares">>]],
      ErrorHTTP } \cup Excepciones

RespuestasEstimador ==
    { [clase |-> "ok",
       cuerpo |-> [tiempo_estimado_horas |-> <<6>>, categoria_tiempo |-> "normal",
                   factores_aplicados |-> << <<"Base por tipo de atencion">> >>]],
      ErrorHTTP } \cup Excepciones

RespuestasComplejidad ==
    { [clase |-> "ok",
       cuerpo |-> [complejidad |-> "muy_alta", score |-> 85, nivel_recomendado |-> "N3",
                   recomendacion |-> <<"Derivar a especialista">>]],
      [clase |-> "ok",
       cuerpo |-> [complejidad |-> "alta", score |-> 65, nivel_recomendado |-> "N2",
                   recomendacion |-> <<"Derivar a soporte avanzado">>]],
      ErrorHTTP } \cup Excepciones

\* No response received yet.
SinRespuesta == [clase |-> "ninguna"]

\* The tickets of the pipeline runs: (producto, tipo_atencion_sd).
TicketsPipeline ==
    { [producto |-> <<"SCTR">>, tipo_atencion_sd |-> <<"consulta">>],
      [producto |-> <<>>, tipo_atencion_sd |-> <<"consulta">>] }

\* A request posted to a collaborator: the agent and the fields of the body
\* that come from the run (the fields copied from the ticket are left out).
Llamada(agente, cuerpo) == [agente |-> agente, cuerpo |-> cuerpo]

\* Lines 74-88, 104-106, 128-131: the locals of a run suspended in its first
\* call, the one to the Historico agent.
Inicio(ticket) ==
    [pc |-> "historico", ticket_id |-> "TK-1", ticket |-> ticket,
     via_historico |-> FALSE, mesa_historico |-> None, nivel_historico |-> None,
     hist_razon |-> <<>>, resolucion_ref |-> None,
     tiempo_horas |-> Null, categoria_tpo |-> "", factores_est |-> <<>>,
     complejidad |-> "media", score_comp |-> 50, nivel_rec |-> "N1", recom_comp |-> <<>>,
     r_hist |-> SinRespuesta, r_est |-> SinRespuesta, r_comp |-> SinRespuesta,
     llamadas |-> << Llamada("historico", [ticket_id |-> "TK-1"]) >>,
     enviado |-> SinRespuesta, o |-> SinRespuesta, resultado |-> SinRespuesta]

\* Lines 82-101: the locals after the call to the Historico agent answered r.
TrasHistorico(p, r) ==
    IF r.clase = "excepcion"
    THEN [p EXCEPT !.pc = "estimador", !.r_hist = r,
                   !.hist_razon = <<"Historico no disponible: ", r.causa>>,
                   !.resolucion_ref = None]
    ELSE [p EXCEPT !.pc = "estimador", !.r_hist = r,
                   !.via_historico = Get(r.cuerpo, "encontrado", FALSE),
                   !.mesa_historico = Get(r.cuerpo, "mesa_sugerida", None),
                   !.nivel_historico = Get(r.cuerpo, "nivel_sugerido", None),
                   !.hist_razon = Get(r.cuerpo, "razonamiento", <<>>),
                   !.resolucion_ref = Get(r.cuerpo, "resolucion_referencia", None)]

\* Lines 107-125: the locals after the call to the Estimador agent answered r.
TrasEstimador(p, r) ==
    IF r.clase = "excepcion"
    THEN [p EXCEPT !.pc = "complejidad", !.r_est = r,
                   !.factores_est = << <<"Estimador no disponible: ", r.causa>> >>]
    ELSE [p EXCEPT !.pc = "complejidad", !.r_est = r,
                   !.tiempo_horas = Get(r.cuerpo, "tiempo_estimado_horas", Null),
                   !.categoria_tpo = Get(r.cuerpo, "categoria_tiempo", ""),
                   !.factores_est = Get(r.cuerpo, "factores_aplicados", <<>>)]

\* Variant: a failed Complejidad call leaves the tier of an escalation.
TrasComplejidad_sin_defecto(p, r) ==
    IF r.clase = "excepcion"
    THEN [p EXCEPT !.pc = "orquestador", !.r_comp = r, !.nivel_rec = "N2",
                   !.recom_comp = <<"Complejidad no disponible: ", r.causa>>]
    ELSE [p EXCEPT !.pc = "orquestador", !.r_comp = r,
                   !.complejidad = Get(r.cuerpo, "complejidad", p.complejidad),
                   !.score_comp = Get(r.cuerpo, "score", p.score_comp),
                   !.nivel_rec = Get(r.cuerpo, "nivel_recomendado", p.nivel_rec),
                   !.recom_comp = Get(r.cuerpo, "recomendacion", <<>>)]

\* Lines 132-152: the locals after the call to the Complejidad agent answered r.
TrasComplejidad(p, r) ==
    IF r.clase = "excepcion"
    THEN [p EXCEPT !.pc = "orquestador", !.r_comp = r,
                   !.recom_comp = <<"Complejidad no disponible: ", r.causa>>]
    ELSE [p EXCEPT !.pc = "orquestador", !.r_comp = r,
                   !.complejidad = Get(r.cuerpo, "complejidad", p.complejidad),
                   !.score_comp = Get(r.cuerpo, "score", p.score_comp),
                   !.nivel_rec = Get(r.cuerpo, "nivel_recomendado", p.nivel_rec),
                   !.recom_comp = Get(r.cuerpo, "recomendacion", <<>>)]

\* Lines 158-175: the body of the request sent to the orchestrator.
SolicitudDe(p) ==
    Solicitud(p.ticket_id, p.nivel_rec, p.complejidad,
              <<p.ticket.producto, p.ticket.tipo_atencion_sd>>,
              p.via_historico, p.mesa_historico, p.resolucion_ref)

\* Lines 108-116: the request to the Estimador agent is posted.
PedirEstimacion(p) ==
    [p EXCEPT !.llamadas = Append(@, Llamada("estimador", [ticket_id |-> p.ticket_id]))]

\* Variant: the Complejidad request is built before the estimate is read.
PedirComplejidad_sin_horas(p) ==
    [p EXCEPT !.llamadas =
        Append(@, Llamada("complejidad", [ticket_id |-> p.ticket_id,
                                          tiempo_estimado_horas |-> Null]))]

\* Lines 132-141: the request to the Complejidad agent is posted, with the
\* estimate of the run.
PedirComplejidad(p) ==
    [p EXCEPT !.llamadas =
        Append(@, Llamada("complejidad", [ticket_id |-> p.ticket_id,
                                          tiempo_estimado_horas |-> p.tiempo_horas]))]

\* Lines 157-175: the request to the orchestrator is posted.
PedirAsignacion(p) ==
    [p EXCEPT !.llamadas = Append(@, Llamada("orquestador", SolicitudDe(p)))]

\* Lines 178-185: the result used when the orchestrator cannot be reached.
OrquestadorCaido(causa) ==
    [mesa_asignada |-> "Service Desk 1", nivel_asignado |-> "N1", en_cola |-> FALSE,
     razonamiento |-> Razon(<<"Orquestador no disponible: ", causa>>, <<>>)]

\* f"{tiempo_horas}" of an optional number.
FormatoHoras(t) == IF t = Null THEN "None" ELSE ToString(t[1])

\* The text of a reason of the orchestrator, its numbers after its literals.
TextoRazon(r) == r.texto \o [i \in DOMAIN r.valores |-> ToString(r.valores[i])]

\* Variant: the estimate is left out of the trace when there is none.
Traza_sin_estimado(p, o) ==
    <<"Historico: ">>
    \o (IF p.hist_razon = <<>> THEN <<"sin antecedentes">> ELSE p.hist_razon)
    \o (IF p.tiempo_horas = Null THEN <<>>
        ELSE <<" | ", "Estimado: ", FormatoHoras(p.tiempo_horas), "h (", p.categoria_tpo, ")">>)
    \o <<" | ", "Complejidad: ", p.complejidad, " (score=", ToString(p.score_comp), ")", " | ">>
    \o TextoRazon(Get(o, "razonamiento", Razon(<<>>, <<>>)))

\* Lines 187-192: the reasoning trace, as the sequence of its fragments; the
\* separator " | " of the f-string is a fragment of its own.
Traza(p, o) ==
    <<"Historico: ">>
    \o (IF p.hist_razon = <<>> THEN <<"sin antecedentes">> ELSE p.hist_razon)
    \o <<" | ", "Estimado: ", FormatoHoras(p.tiempo_horas), "h (", p.categoria_tpo, ")">>
    \o <<" | ", "Complejidad: ", p.complejidad, " (score=", ToString(p.score_comp), ")", " | ">>
    \o TextoRazon(Get(o, "razonamiento", Razon(<<>>, <<>>)))

\* Lines 194-215: the returned dict (the fields copied from the ticket and the
\* timestamp are left out).
Resultado(p, o) ==
    [ticket_id |-> p.ticket_id,
     mesa_asignada |-> Get(o, "mesa_asignada", "Service Desk 1"),
     nivel_asignado |-> Get(o, "nivel_asignado", "N1"),
     en_cola |-> Get(o, "en_cola", FALSE),
     complejidad |-> p.complejidad,
     score_complejidad |-> p.score_comp,
     tiempo_estimado_horas |-> p.tiempo_horas,
     categoria_tiempo |-> p.categoria_tpo,
     via_historico |-> p.via_historico,
     razonamiento |-> Traza(p, o)]

\* Lines 154-215: the locals once the orchestrator call has ended with o.
TrasOrquestador(p, o) ==
    [p EXCEPT !.pc = "fin", !.enviado = SolicitudDe(p), !.o = o,
              !.resultado = Resultado(p, o)]

\* The run is suspended in the call to the Historico agent, which ends; the
\* run goes on to its next call.
ConsultarHistorico ==
    /\ pipeline.pc = "historico"
    /\ \E r \in RespuestasHistorico : pipeline' = PedirEstimacion(TrasHistorico(pipeline, r))
    /\ UNCHANGED <<ESTADO_MESAS, _COLA, atendida, restantes, porEnviar, pendientes,
                   respuestas, ESTADO_CAPACIDAD, leido, consulta, api>>

\* The call to the Estimador agent ends.
EstimarTiempo ==
    /\ pipeline.pc = "estimador"
    /\ \E r \in RespuestasEstimador : pipeline' = PedirComplejidad(TrasEstimador(pipeline, r))
    /\ UNCHANGED <<ESTADO_MESAS, _COLA, atendida, restantes, porEnviar, pendientes,
                   respuestas, ESTADO_CAPACIDAD, leido, consulta, api>>

\* The call to the Complejidad agent ends.
EvaluarComplejidad ==
    /\ pipeline.pc = "complejidad"
    /\ \E r \in RespuestasComplejidad : pipeline' = PedirAsignacion(TrasComplejidad(pipeline, r))
    /\ UNCHANGED <<ESTADO_MESAS, _COLA, atendida, restantes, porEnviar, pendientes,
                   respuestas, ESTADO_CAPACIDAD, leido, consulta, api>>

\* The orchestrator serves the request of the run and the run returns.
AsignarPorPipeline ==
    /\ pipeline.pc = "orquestador"
    /\ \E r \in {asignar(ESTADO_MESAS, _COLA, SolicitudDe(pipeline))} :
           /\ ESTADO_MESAS' = r.ESTADO
           /\ _COLA' = r.COLA
           /\ atendida' = Atendida(ESTADO_MESAS, SolicitudDe(pipeline), r.respuesta)
           /\ pipeline' = TrasOrquestador(pipeline, r.respuesta)
    /\ UNCHANGED <<restantes, porEnviar, pendientes, respuestas, ESTADO_CAPACIDAD,
                   leido, consulta, api>>

\* The orchestrator cannot be reached and the run returns its fallback.
OrquestadorNoDisponible ==
    /\ pipeline.pc = "orquestador"
    /\ \E c \in Causas : pipeline' = TrasOrquestador(pipeline, OrquestadorCaido(c))
    /\ UNCHANGED <<ESTADO_MESAS, _COLA, atendida, restantes, porEnviar, pendientes,
                   respuestas, ESTADO_CAPACIDAD, leido, consulta, api>>

-----------------------------------------------------------------------------
(* The API (api/main.py).  POST /tickets/nuevo hands the ticket to the n8n   *)
(* workflow, which runs the pipeline through POST /pipeline/ejecutar and     *)
(* answers with its result; when the delegation returns nothing the API      *)
(* runs the pipeline itself.  A run takes its ticket id from the clock when  *)
(* it starts and later posts its request to the orchestrator.                *)

\* Readings of datetime.now() within one second: the clock is finer than the
\* "%S" the ticket id ends with.
TicsPorSegundo == 2

\* Lines 119-121: "TK-" and the time of the call, cut to the second.
_generar_ticket_id(reloj) == "TK-" \o ToString(reloj \div TicsPorSegundo)

\* A ticket received by POST /tickets/nuevo: where crear_ticket is, and where
\* the n8n execution of its webhook call is.
Envio == [pc |-> "n8n", n8n |-> "recibido", resultado |-> SinRespuesta]

\* A run of _pipeline_derivacion for the ticket of envio, started by the
\* /pipeline/ejecutar handler ("n8n") or by the fallback of crear_ticket
\* ("directo").
Ejecucion(ticket_id, envio, por) ==
    [ticket_id |-> ticket_id, envio |-> envio, por |-> por, pc |-> "en_curso",
     resultado |-> SinRespuesta]

\* What the collaborators of a run make of the ticket: (nivel_recomendado,
\* complejidad).
EvaluacionesApi == { <<"N1", "media">>, <<"N2", "alta">> }

\* Lines 225-241: the request of a run to the orchestrator.
SolicitudApi(ticket_id, nc) ==
    Solicitud(ticket_id, nc[1], nc[2], <<<<>>, <<"consulta">>>>, FALSE, None, None)

\* Lines 260-264: the result of a run, from the orchestrator's answer o.
ResultadoApi(ticket_id, o) ==
    [ticket_id |-> ticket_id,
     mesa_asignada |-> Get(o, "mesa_asignada", "Service Desk 1"),
     nivel_asignado |-> Get(o, "nivel_asignado", "N1"),
     en_cola |-> Get(o, "en_cola", FALSE)]

\* The state of everything but the API and the orchestrator.
RestoSinCambio ==
    UNCHANGED <<restantes, porEnviar, pendientes, respuestas, ESTADO_CAPACIDAD, leido,
                consulta, pipeline>>

\* POST /tickets/nuevo arrives and crear_ticket posts the ticket to the n8n
\* webhook (lines 373-380, 104-105).
CrearTicket ==
    /\ Len(api.envios) < MaxTickets
    /\ api' = [api EXCEPT !.envios = Append(@, Envio)]
    /\ RestoSinCambio
    /\ UNCHANGED <<ESTADO_MESAS, _COLA, atendida>>

\* The n8n execution of envio i calls POST /pipeline/ejecutar: the handler
\* takes a ticket id and starts the run (lines 286-292).
EjecutarPipelinePorN8n(i) ==
    /\ api.envios[i].n8n = "recibido"
    /\ api' = [api EXCEPT
                 !.envios[i].n8n = "en_pipeline",
                 !.ejecuciones = Append(@, Ejecucion(_generar_ticket_id(api.reloj), i, "n8n"))]
    /\ RestoSinCambio
    /\ UNCHANGED <<ESTADO_MESAS, _COLA, atendida>>

\* Run k posts its request to the orchestrator, which serves it, and returns
\* its result: to n8n, or to crear_ticket, which returns it (lines 225-270,
\* 292-293, 384-386).
LlamarOrquestador(k) ==
    /\ api.ejecuciones[k].pc = "en_curso"
    /\ \E nc \in EvaluacionesApi :
         \E r \in {asignar(ESTADO_MESAS, _COLA, SolicitudApi(api.ejecuciones[k].ticket_id, nc))} :
           /\ ESTADO_MESAS' = r.ESTADO
           /\ _COLA' = r.COLA
           /\ atendida' = Atendida(ESTADO_MESAS,
                                   SolicitudApi(api.ejecuciones[k].ticket_id, nc), r.respuesta)
           /\ \E res \in {ResultadoApi(api.ejecuciones[k].ticket_id, r.respuesta)} :
                api' = [api EXCEPT
                          !.ejecuciones[k].pc = "fin",
                          !.ejecuciones[k].resultado = res,
                          !.envios[api.ejecuciones[k].envio] =
                              IF api.ejecuciones[k].por = "directo"
                              THEN [@ EXCEPT !.pc = "fin", !.resultado = res]
                              ELSE [@ EXCEPT !.n8n = "con_resultado"]]
    /\ RestoSinCambio

\* The result of the run n8n started for envio i.
ResultadoDeN8n(i) ==
    LET k == CHOOSE k \in DOMAIN api.ejecuciones :
                 api.ejecuciones[k].envio = i /\ api.ejecuciones[k].por = "n8n"
    IN  api.ejecuciones[k].resultado

\* n8n answers the webhook call of envio i with status 200 and the result of
\* its run; crear_ticket returns it (lines 105-108, 380, 388-).
N8nResponde(i) ==
    /\ api.envios[i].pc = "n8n"
    /\ api.envios[i].n8n = "con_resultado"
    /\ api' = [api EXCEPT !.envios[i] = [pc |-> "fin", n8n |-> "respondido",
                                         resultado |-> ResultadoDeN8n(i)]]
    /\ RestoSinCambio
    /\ UNCHANGED <<ESTADO_MESAS, _COLA, atendida>>

\* The webhook call of envio i ends without a result: n8n answers with another
\* status, or the call raises (no connection, the 45 s timeout), whatever n8n
\* has done by then; _enviar_a_n8n returns None and crear_ticket takes a
\* ticket id and starts the run itself (lines 109-114, 382-385).
N8nFalla(i) ==
    /\ api.envios[i].pc = "n8n"
    /\ api' = [api EXCEPT
                 !.envios[i].pc = "directo",
                 !.ejecuciones = Append(@, Ejecucion(_generar_ticket_id(api.reloj), i, "directo"))]
    /\ RestoSinCambio
    /\ UNCHANGED <<ESTADO_MESAS, _COLA, atendida>>

\* Time passes.
Tic ==
    /\ api.reloj < MaxReloj
    /\ api' = [api EXCEPT !.reloj = @ + 1]
    /\ RestoSinCambio
    /\ UNCHANGED <<ESTADO_MESAS, _COLA, atendida>>

-----------------------------------------------------------------------------
(* Specifications. *)

SinClientes ==
    /\ porEnviar = EmptyBag
    /\ pendientes = EmptyBag
    /\ respuestas = EmptyBag

SinLecturas ==
    /\ ESTADO_CAPACIDAD = CAPACIDAD_INICIAL
    /\ leido = SinLeer

\* No call of the product rules on its own and no pipeline run.
SinPipeline ==
    /\ consulta = SinConsultar
    /\ pipeline = SinEjecutar
    /\ api = SinApi

\* The registry with the loads replaced: cargas maps desk names to loads.
ConCargas(E, cargas) ==
    [i \in DOMAIN E |->
        IF E[i].mesa \in DOMAIN cargas
        THEN [E[i] EXCEPT !.actual = cargas[E[i].mesa]] ELSE E[i]]

\* The orchestrator as started, serving requests one at a time.
Init ==
    /\ ESTADO_MESAS = ESTADO_INICIAL
    /\ _COLA = <<>>
    /\ atendida = SinAtender
    /\ restantes = MaxSolicitudes
    /\ SinClientes
    /\ SinLecturas
    /\ SinPipeline

Next == \E solicitud \in Solicitudes : Asignar(solicitud)

Spec == Init /\ [][Next]_vars

\* Loads the started orchestrator reaches (each desk can be loaded on its own,
\* by precedents that name it, up to the first load at or above the threshold):
\* the N1 desks, the N2 desk and the SCTR desk close to or at saturation.
RegistrosCargados ==
    { ConCargas(ESTADO_INICIAL, c) : c \in
        { c \in [ {"Service Desk 1", "Service Desk 2", "Squad - Mesa Ongoing", "Squad - Mesa SCTR"} -> 7..18 ] :
            /\ c["Service Desk 1"] \in {17, 18}
            /\ c["Service Desk 2"] \in {16, 17, 18}
            /\ c["Squad - Mesa Ongoing"] \in {13, 14}
            /\ c["Squad - Mesa SCTR"] \in {7, 8} } }

\* The orchestrator after it has served requests, serving some more.
InitCargado ==
    /\ ESTADO_MESAS \in RegistrosCargados
    /\ _COLA = <<>>
    /\ atendida = SinAtender
    /\ restantes = MaxSolicitudesCargado
    /\ SinClientes
    /\ SinLecturas
    /\ SinPipeline

SpecCargado == InitCargado /\ [][Next]_vars

\* The same, with the two read requests of the orchestrator between the
\* assignments.
NextConLecturas ==
    \/ \E solicitud \in Solicitudes : Asignar(solicitud)
    \/ EstadoMesas
    \/ VerCola

SpecConLecturas == InitCargado /\ [][NextConLecturas]_vars

\* Registries of the shipped desks with the N1 desks, the N2 desk and the SCTR
\* desk just below the threshold, at it, above it and full: the loads a
\* deployment may write in the registry literal.
RegistrosSaturados ==
    { ConCargas(ESTADO_INICIAL, c) : c \in
        { c \in [ {"Service Desk 1", "Service Desk 2", "Squad - Mesa Ongoing", "Squad - Mesa SCTR"} -> 7..20 ] :
            /\ c["Service Desk 1"] \in {17, 18, 20}
            /\ c["Service Desk 2"] \in {17, 18, 19, 20}
            /\ c["Squad - Mesa Ongoing"] \in {13, 14, 15}
            /\ c["Squad - Mesa SCTR"] \in {7, 8} } }

\* The orchestrator started on such a registry, serving requests one at a time.
InitSaturado ==
    /\ ESTADO_MESAS \in RegistrosSaturados
    /\ _COLA = <<>>
    /\ atendida = SinAtender
    /\ restantes = MaxSolicitudesCargado
    /\ SinClientes
    /\ SinLecturas
    /\ SinPipeline

SpecSaturado == InitSaturado /\ [][Next]_vars

\* The same registries with the other specialist desks at the first load at
\* which each is unavailable.
RegistrosTodoSaturado ==
    { ConCargas(r, [m \in {"soportedigital", "soporteapp", "Squad - Mesa Vida Ley",
                           "Squad - Mesa SOAT"} |->
                       IF m \in {"soportedigital", "soporteapp"} THEN 9 ELSE 8])
        : r \in RegistrosSaturados }

\* The orchestrator on such a registry, serving requests one at a time.
InitTodoSaturado ==
    /\ ESTADO_MESAS \in RegistrosTodoSaturado
    /\ _COLA = <<>>
    /\ atendida = SinAtender
    /\ restantes = MaxSolicitudesCargado
    /\ SinClientes
    /\ SinLecturas
    /\ SinPipeline

SpecTodoSaturado == InitTodoSaturado /\ [][Next]_vars

\* The requests of the concurrent clients: a plain N1 request, a plain N2
\* request, a specialist SCTR request, a precedent without a desk and a
\* precedent that names the SCTR desk.
SolicitudesConcurrentes ==
    { Solicitud("TK-1", "N1", "alta", <<<<>>, <<"consulta">>>>, FALSE, None, None),
      Solicitud("TK-1", "N2", "alta", <<<<>>, <<"consulta">>>>, FALSE, None, None),
      Solicitud("TK-1", "N3", "muy_alta", <<<<"SCTR">>, <<"consulta">>>>, FALSE, None, None),
      Solicitud("TK-1", "N3", "muy_alta", <<<<"SCTR">>, <<"consulta">>>>, TRUE, None, None),
      Solicitud("TK-1", "N3", "muy_alta", <<<<"SCTR">>, <<"consulta">>>>, TRUE,
                "Squad - Mesa SCTR", "REF-1") }

\* The bag of the elements of a sequence.
BagDe(q) == [x \in {q[i] : i \in DOMAIN q} |-> Cardinality({i \in DOMAIN q : q[i] = x})]

\* The started orchestrator and MaxConcurrentes requests about to be sent.
InitConc ==
    /\ ESTADO_MESAS = ESTADO_INICIAL
    /\ _COLA = <<>>
    /\ atendida = SinAtender
    /\ restantes = 0
    /\ porEnviar \in { BagDe(q) : q \in [1..MaxConcurrentes -> SolicitudesConcurrentes] }
    /\ pendientes = EmptyBag
    /\ respuestas = EmptyBag
    /\ SinLecturas
    /\ SinPipeline

NextConc ==
    \/ \E solicitud \in Solicitudes : Enviar(solicitud)
    \/ \E solicitud \in Solicitudes : Atender(solicitud)

SpecConc == InitConc /\ [][NextConc]_vars

\* The registries with loads near and at capacity, with the requests of the concurrent clients served one
\* at a time and the queue listed at any moment.
NextCola ==
    \/ \E solicitud \in SolicitudesConcurrentes : Asignar(solicitud)
    \/ VerCola

SpecCola == InitSaturado /\ [][NextCola]_vars

\* The stress scenario: a registry whose only N1 desk is empty and has
\* capacity n, and n calls for N1 about to be sent.
RegistroEstres(n) ==
    << [mesa |-> "Service Desk 1", nivel |-> "N1", especialidad |-> "Soporte general",
        max |-> n, actual |-> 0],
       ESTADO_INICIAL[3] >>

SolicitudEstres == Solicitud("TK-1", "N1", "alta", <<<<>>, <<"consulta">>>>, FALSE, None, None)

InitEstres ==
    \E n \in 1..MaxEstres :
        /\ ESTADO_MESAS = RegistroEstres(n)
        /\ _COLA = <<>>
        /\ atendida = SinAtender
        /\ restantes = 0
        /\ porEnviar = BagDe([i \in 1..n |-> SolicitudEstres])
        /\ pendientes = EmptyBag
        /\ respuestas = EmptyBag
        /\ SinLecturas
        /\ SinPipeline

SpecEstres == InitEstres /\ [][NextConc]_vars

\* Synthetic load/capacity pairs: a one-desk registry in each agent, one
\* request routed on it, and the two listings.
InitUmbral ==
    \E m \in 1..MaxCapacidad : \E a \in 0..m :
        /\ ESTADO_MESAS = << [mesa |-> "Service Desk 1", nivel |-> "N1",
                              especialidad |-> "Soporte general", max |-> m, actual |-> a] >>
        /\ ESTADO_CAPACIDAD = << [mesa |-> "Service Desk 1",
                                  especialidad |-> "N1 - Soporte General",
                                  max_tickets |-> m, carga_actual |-> a] >>
        /\ _COLA = <<>>
        /\ atendida = SinAtender
        /\ restantes = 1
        /\ SinClientes
        /\ leido = SinLeer
        /\ SinPipeline

NextUmbral ==
    \/ Asignar(SolicitudEstres)
    \/ EstadoMesas
    \/ CapacidadTodas

SpecUmbral == InitUmbral /\ [][NextUmbral]_vars

\* One pipeline run against the started orchestrator.
InitPipeline ==
    /\ ESTADO_MESAS = ESTADO_INICIAL
    /\ _COLA = <<>>
    /\ atendida = SinAtender
    /\ restantes = 0
    /\ SinClientes
    /\ SinLecturas
    /\ api = SinApi
    /\ consulta = SinConsultar
    /\ pipeline \in { Inicio(t) : t \in TicketsPipeline }

NextPipeline ==
    \/ ConsultarHistorico
    \/ EstimarTiempo
    \/ EvaluarComplejidad
    \/ AsignarPorPipeline
    \/ OrquestadorNoDisponible

SpecPipeline == InitPipeline /\ [][NextPipeline]_vars

\* The call to the orchestrator ends, one way or the other.
LlamadaAlOrquestador == OrquestadorNoDisponible \/ AsignarPorPipeline

\* Every call of a run ends: with an answer, or with the exception the 12 s
\* timeout of the client raises.
SpecPipelineJusto ==
    /\ SpecPipeline
    /\ WF_vars(ConsultarHistorico)
    /\ WF_vars(EstimarTiempo)
    /\ WF_vars(EvaluarComplejidad)
    /\ WF_vars(LlamadaAlOrquestador)

\* The texts of at most n fragments taken from S.
TextosHasta(S, n) == UNION { [1..k -> S] : k \in 0..n }

\* Fragments of the product texts and of the attention-type texts, in the
\* spellings the tickets use.
FragmentosProducto == {"Vida Ley", "Sctr", "SOAT", "soat", "web", "Factura", "Salud"}

FragmentosTipo ==
    {"VIDA LEY", "sctr", "Soat", "Ecommerce", "ecommerce", "Digital", "WEB",
     "factura", "Planilla", "Conciliacion", "Consulta"}

\* One call of the product rules, on any product and attention type.
InitProducto ==
    /\ ESTADO_MESAS = ESTADO_INICIAL
    /\ _COLA = <<>>
    /\ atendida = SinAtender
    /\ restantes = 0
    /\ SinClientes
    /\ SinLecturas
    /\ api = SinApi
    /\ pipeline = SinEjecutar
    /\ \E producto \in TextosHasta(FragmentosProducto, MaxFragmentosProducto),
          tipo_sd \in TextosHasta(FragmentosTipo, MaxFragmentosTipo) :
            consulta = [estado |-> "pendiente", producto |-> producto, tipo_sd |-> tipo_sd]

NextProducto == ConsultarProducto

SpecProducto == InitProducto /\ [][NextProducto]_vars

-----------------------------------------------------------------------------
(* The Complejidad agent (agents/complejidad/main.py).  A text is the        *)
(* sequence of its fragments, the summary the set of the words and phrases   *)
(* it contains; a pattern \b(a|b|c)\b is the set of its alternatives and     *)
(* matches a summary that contains one of them.  Every term of the score is  *)
(* a whole number, so round(score, 1) leaves it as it is.                    *)

\* Lines 58-75: the keys in the order of the dict, with their points.
PUNTAJE_TIPO_ATENCION ==
    << <<"consulta", 10>>, <<"solicitud de info", 10>>, <<"actualizacion", 15>>,
       <<"desafiliacion", 15>>, <<"alta de corredor", 20>>, <<"acceso", 20>>,
       <<"emision", 30>>, <<"endoso", 30>>, <<"anulacion", 30>>, <<"reembolso", 40>>,
       <<"siniestro", 45>>, <<"error de aplicacion", 50>>, <<"error de sistema", 60>>,
       <<"error de servidor", 65>>, <<"integracion", 70>>, <<"configuracion", 35>> >>

\* Lines 78-87 ("100%" is left out: \b after "%" asks for a letter or digit
\* right behind it).
PALABRAS_ALTA_COMPLEJIDAD ==
    << [patron |-> {"masivo", "todos los usuarios"}, puntos |-> 30],
       [patron |-> {"caido", "sin servicio", "no funciona"}, puntos |-> 25],
       [patron |-> {"produccion", "productivo", "en vivo"}, puntos |-> 20],
       [patron |-> {"critico", "emergencia", "urgente"}, puntos |-> 15],
       [patron |-> {"bloqueado", "paralizado", "detenido"}, puntos |-> 15],
       [patron |-> {"integracion", "api", "servicio externo"}, puntos |-> 15],
       [patron |-> {"base de datos", "bd", "sql", "timeout"}, puntos |-> 20],
       [patron |-> {"error 502", "500", "503", "504"}, puntos |-> 20] >>

\* Lines 89-92.
PALABRAS_BAJA_COMPLEJIDAD ==
    << [patron |-> {"consulta", "pregunta", "como"}, puntos |-> 0 - 10],
       [patron |-> {"actualizar datos", "cambiar correo"}, puntos |-> 0 - 10] >>

\* Lines 107-115: the points of the first key of the dict found in tipo_sd,
\* relative to the base 30; nothing when no key is found.
PuntosTipoAtencion(tipo_sd) ==
    LET con == {k \in DOMAIN PUNTAJE_TIPO_ATENCION :
                    In(PUNTAJE_TIPO_ATENCION[k][1], tipo_sd)}
    IN  IF con = {} THEN 0
        ELSE PUNTAJE_TIPO_ATENCION[CHOOSE k \in con : \A j \in con : k <= j][2] - 30

\* re.search(patron, resumen)
Busca(patron, resumen) == patron \cap resumen # {}

\* Lines 118-126: the points of the entry k of a table for a summary.
PuntosPalabra(tabla, k, resumen) ==
    IF Busca(tabla[k].patron, resumen) THEN tabla[k].puntos ELSE 0

\* Lines 118-126: the points of all the patterns found in the summary.
PuntosResumen(resumen) ==
    PuntosPalabra(PALABRAS_ALTA_COMPLEJIDAD, 1, resumen)
    + PuntosPalabra(PALABRAS_ALTA_COMPLEJIDAD, 2, resumen)
    + PuntosPalabra(PALABRAS_ALTA_COMPLEJIDAD, 3, resumen)
    + PuntosPalabra(PALABRAS_ALTA_COMPLEJIDAD, 4, resumen)
    + PuntosPalabra(PALABRAS_ALTA_COMPLEJIDAD, 5, resumen)
    + PuntosPalabra(PALABRAS_ALTA_COMPLEJIDAD, 6, resumen)
    + PuntosPalabra(PALABRAS_ALTA_COMPLEJIDAD, 7, resumen)
    + PuntosPalabra(PALABRAS_ALTA_COMPLEJIDAD, 8, resumen)
    + PuntosPalabra(PALABRAS_BAJA_COMPLEJIDAD, 1, resumen)
    + PuntosPalabra(PALABRAS_BAJA_COMPLEJIDAD, 2, resumen)

\* Lines 133-144: the points of the estimate of the Estimador, if there is one.
PuntosTiempo(tiempo_estimado_horas) ==
    IF tiempo_estimado_horas = Null THEN 0
    ELSE IF tiempo_estimado_horas[1] >= 168 THEN 20
    ELSE IF tiempo_estimado_horas[1] >= 72 THEN 10
    ELSE IF tiempo_estimado_horas[1] < 24 THEN 0 - 10
    ELSE 0

\* Lines 97-150: the score before the clamp.
Puntaje(ticket) ==
    30
    + (IF In("incidente", lower(ticket.tipo_incidencia)) THEN 15 ELSE 0 - 5)
    + PuntosTipoAtencion(lower(ticket.tipo_atencion_sd))
    + PuntosResumen(ticket.resumen)
    + (IF ticket.urgencia_detectada = "alta" THEN 10 ELSE 0)
    + PuntosTiempo(ticket.tiempo_estimado_horas)
    + (IF \E kw \in {"sctr", "vida ley", "vida individual"} : In(kw, lower(ticket.producto))
       THEN 10 ELSE 0)

\* Line 153: max(0.0, min(100.0, round(score, 1)))
Acotar(score) == IF score < 0 THEN 0 ELSE IF score > 100 THEN 100 ELSE score

\* Lines 155-182: the category and the tier of a score, in the returned dict.
Categorizar(score) ==
    IF score <= 35 THEN [complejidad |-> "baja", score |-> score, nivel_recomendado |-> "N1"]
    ELSE IF score <= 60 THEN [complejidad |-> "media", score |-> score, nivel_recomendado |-> "N1"]
    ELSE IF score <= 80 THEN [complejidad |-> "alta", score |-> score, nivel_recomendado |-> "N2"]
    ELSE [complejidad |-> "muy_alta", score |-> score, nivel_recomendado |-> "N3"]

\* Variant: the score is returned as summed, without the clamp.
evaluar_complejidad_sin_tope(ticket) == Categorizar(Puntaje(ticket))

\* Lines 95-182.
evaluar_complejidad(ticket) == Categorizar(Acotar(Puntaje(ticket)))

\* The most words and phrases of the tables in one summary.
MaxPalabrasResumen == 3

\* Words and phrases of the summaries: one of each pattern and one of none.
PalabrasResumen ==
    {"masivo", "caido", "produccion", "urgente", "bloqueado", "api", "timeout", "503",
     "consulta", "cambiar correo", "poliza"}

\* The tickets evaluated.
TicketsEvaluacion ==
    [tipo_incidencia : {<<"Incidente">>, <<"Solicitud">>},
     tipo_atencion_sd : {<<"consulta">>, <<"reembolso">>, <<"error de sistema">>,
                         <<"integracion", "consulta">>, <<"otro">>},
     resumen : {r \in SUBSET PalabrasResumen : Cardinality(r) <= MaxPalabrasResumen},
     urgencia_detectada : {"alta", "media"},
     tiempo_estimado_horas : {Null, <<6>>, <<24>>, <<72>>, <<168>>},
     producto : {<<>>, <<"SCTR">>}]

\* One call evaluar_complejidad(ticket): the ticket stays, the dict returned
\* is added.
EvaluarTicket ==
    /\ consulta.estado = "por evaluar"
    /\ consulta' = [estado |-> "evaluada", ticket |-> consulta.ticket,
                    resultado |-> evaluar_complejidad(consulta.ticket)]
    /\ UNCHANGED <<ESTADO_MESAS, _COLA, atendida, restantes, porEnviar, pendientes,
                   respuestas, ESTADO_CAPACIDAD, leido, pipeline, api>>

\* One call of the evaluation, on any ticket.
InitComplejidad ==
    /\ ESTADO_MESAS = ESTADO_INICIAL
    /\ _COLA = <<>>
    /\ atendida = SinAtender
    /\ restantes = 0
    /\ SinClientes
    /\ SinLecturas
    /\ api = SinApi
    /\ pipeline = SinEjecutar
    /\ \E ticket \in TicketsEvaluacion : consulta = [estado |-> "por evaluar", ticket |-> ticket]

NextComplejidad == EvaluarTicket

SpecComplejidad == InitComplejidad /\ [][NextComplejidad]_vars

-----------------------------------------------------------------------------
(* POST /actualizar/{mesa_id} on the capacity agent                          *)
(* (agents/capacidad/main.py).                                               *)

\* Calls of /actualizar in one behaviour.
MaxActualizaciones == 2

\* The largest increment, in absolute value, a call carries.
MaxIncremento == 9

\* The values of the query parameter "incremento: int = 1".
Incrementos == {0 - MaxIncremento, 0 - 1, 0, 1, MaxIncremento}

\* The values of the path parameter: the desks of the registry and a name
\* that is none of them.
MesaIds == {CAPACIDAD_INICIAL[i].mesa : i \in DOMAIN CAPACIDAD_INICIAL} \cup {"Mesa Desconocida"}

\* Lines 211-223: the registry and the response one call leaves.
actualizar_carga_mesa(E, mesa_id, incremento) ==
    IF ~\E i \in DOMAIN E : E[i].mesa = mesa_id
    THEN [ESTADO |-> E, respuesta |-> [status |-> 404, detail |-> "Mesa no encontrada"]]
    ELSE [ESTADO |-> [i \in DOMAIN E |->
                        IF E[i].mesa = mesa_id
                        THEN [E[i] EXCEPT !.carga_actual = @ + incremento]
                        ELSE E[i]],
          respuesta |-> [status |-> 200, mesa |-> mesa_id,
                         nueva_carga |-> E[CHOOSE i \in DOMAIN E : E[i].mesa = mesa_id].carga_actual
                                            + incremento,
                         max_tickets |-> E[CHOOSE i \in DOMAIN E : E[i].mesa = mesa_id].max_tickets]]

\* One POST /actualizar/{mesa_id}?incremento=n served: the call, the registry
\* it found and its response are kept.
ActualizarCargaMesa(mesa_id, incremento) ==
    /\ restantes > 0
    /\ restantes' = restantes - 1
    /\ \E r \in {actualizar_carga_mesa(ESTADO_CAPACIDAD, mesa_id, incremento)} :
           /\ ESTADO_CAPACIDAD' = r.ESTADO
           /\ atendida' = [estado |-> "actualizada", mesa_id |-> mesa_id,
                           incremento |-> incremento, antes |-> ESTADO_CAPACIDAD,
                           respuesta |-> r.respuesta]
    /\ UNCHANGED <<ESTADO_MESAS, _COLA, porEnviar, pendientes, respuestas, leido,
                   consulta, pipeline, api>>

\* The capacity agent as started, serving updates and listings.
InitCapacidad ==
    /\ ESTADO_MESAS = ESTADO_INICIAL
    /\ _COLA = <<>>
    /\ atendida = SinAtender
    /\ restantes = MaxActualizaciones
    /\ SinClientes
    /\ SinLecturas
    /\ SinPipeline

NextCapacidad ==
    \/ \E mesa_id \in MesaIds, incremento \in Incrementos :
           ActualizarCargaMesa(mesa_id, incremento)
    \/ CapacidadTodas

SpecCapacidad == InitCapacidad /\ [][NextCapacidad]_vars

\* The API and the orchestrator as started, and the tickets submitted.
InitApi ==
    /\ ESTADO_MESAS = ESTADO_INICIAL
    /\ _COLA = <<>>
    /\ atendida = SinAtender
    /\ restantes = 0
    /\ SinClientes
    /\ SinLecturas
    /\ SinPipeline

NextApi ==
    \/ CrearTicket
    \/ \E i \in DOMAIN api.envios : EjecutarPipelinePorN8n(i)
    \/ \E k \in DOMAIN api.ejecuciones : LlamarOrquestador(k)
    \/ \E i \in DOMAIN api.envios : N8nResponde(i)
    \/ \E i \in DOMAIN api.envios : N8nFalla(i)
    \/ Tic

SpecApi == InitApi /\ [][NextApi]_vars

-----------------------------------------------------------------------------
(* Vocabulary of the properties. *)

\* The last handler run returned a response (not an HTTP 500).
Hecha == atendida.estado = "atendida" /\ atendida.respuesta.status = 200

Sol == atendida.solicitud

Res == atendida.respuesta

\* The registry as the last handler run found it.
Antes == atendida.antes

\* A desk record whose load is strictly below 90% of its capacity.
Libre(d) == 100 * d.actual < 90 * d.max

\* The desk records of a tier in a registry.
DelNivel(E, nivel) == {E[i] : i \in {j \in DOMAIN E : E[j].nivel = nivel}}

HayLibre(E, nivel) == \E d \in DelNivel(E, nivel) : Libre(d)

\* mesa is an available desk of the tier and no available desk of the tier
\* has a smaller load/capacity ratio.
MenosCargadaLibre(E, nivel, mesa) ==
    \E d \in DelNivel(E, nivel) :
        /\ d.mesa = mesa
        /\ Libre(d)
        /\ \A e \in DelNivel(E, nivel) : Libre(e) => d.actual * e.max <= e.actual * d.max

\* The request of the last run takes the specialist branch.
Especialista ==
    /\ ~Sol.via_historico
    /\ Sol.nivel_recomendado = "N3"
    /\ Sol.complejidad = "muy_alta"

\* The desk of the product rule the request matches (None if none).
MesaDeRegla == _mesa_por_producto(Sol.producto, Sol.tipo_atencion_sd)

\* The product rule names a desk that was available.
ReglaLibre == \E i \in DOMAIN Antes : Antes[i].mesa = MesaDeRegla /\ Libre(Antes[i])

\* Every request of the concurrent clients has been answered.
Terminado == porEnviar = EmptyBag /\ pendientes = EmptyBag

\* The number of responses received that satisfy P.
Cuenta(P(_)) ==
    LET S == {r \in DOMAIN respuestas : P(r)}
    IN  BagCardinality([r \in S |-> respuestas[r]])

-----------------------------------------------------------------------------
(* Properties of the orchestrator. *)

\* C1 (as claimed): every response to a request with via_historico = true has
\* nivel_asignado N1 or N2, never N3, whatever mesa_historico names.
C1_HistoricoNuncaN3 ==
    (Hecha /\ Sol.via_historico) => Res.nivel_asignado \in {"N1", "N2"}

\* C2: in every state reached from the shipped registry every desk has
\* 0 <= actual <= max.
C2_CapacidadAcotada ==
    \A i \in DOMAIN ESTADO_MESAS :
        /\ 0 <= ESTADO_MESAS[i].actual
        /\ ESTADO_MESAS[i].actual <= ESTADO_MESAS[i].max

\* C2 witness: an assignment has just filled a desk up to its capacity.
C2_MesaLlena ==
    /\ Hecha
    /\ ~Res.en_cola
    /\ \E i \in DOMAIN ESTADO_MESAS :
        /\ ESTADO_MESAS[i].mesa = Res.mesa_asignada
        /\ ESTADO_MESAS[i].actual = ESTADO_MESAS[i].max
        /\ Antes[i].actual < ESTADO_MESAS[i].actual

C4_ReservaBajoUmbral ==
    (Hecha /\ ~Res.en_cola) =>
        \E i \in DOMAIN Antes :
            /\ Antes[i].mesa = Res.mesa_asignada
            /\ 100 * Antes[i].actual < 90 * Antes[i].max
            /\ ESTADO_MESAS[i].actual = Antes[i].actual + 1
            /\ ESTADO_MESAS[i].actual <= ESTADO_MESAS[i].max

\* C4 witness: with a second request for the SCTR desk accepted and waiting,
\* the first one has taken the last place of the desk.
C4_UltimoLugar ==
    /\ Hecha
    /\ ~Res.en_cola
    /\ Res.mesa_asignada = "Squad - Mesa SCTR"
    /\ \E i \in DOMAIN ESTADO_MESAS :
        /\ ESTADO_MESAS[i].mesa = "Squad - Mesa SCTR"
        /\ ESTADO_MESAS[i].actual = ESTADO_MESAS[i].max
    /\ \E s \in DOMAIN pendientes : s.mesa_historico = "Squad - Mesa SCTR"

\* C5: the load of every desk is its initial load plus the number of responses
\* received that name it with en_cola = false, and the queue holds one entry
\* per response with en_cola = true: every answered request did exactly one of
\* the two.  It holds in every state, so also once all requests have returned.
C5_SinPerdidas ==
    /\ \A i \in DOMAIN ESTADO_MESAS :
        ESTADO_MESAS[i].actual = ESTADO_INICIAL[i].actual
            + Cuenta(LAMBDA r : r.status = 200 /\ ~r.en_cola
                                /\ r.mesa_asignada = ESTADO_MESAS[i].mesa)
    /\ Len(_COLA) = Cuenta(LAMBDA r : r.status = 200 /\ r.en_cola)

\* C5 witness: all the concurrent requests have returned, some assigned and
\* some queued.
C5_TodasRespondidas ==
    /\ Terminado
    /\ BagCardinality(respuestas) = MaxConcurrentes
    /\ Len(_COLA) >= 1
    /\ Cuenta(LAMBDA r : r.status = 200 /\ ~r.en_cola) >= 2

\* C6: on every load/capacity pair a desk is available exactly when
\* 100 * actual < 90 * max, for the routing predicate, for the routing of a
\* request, for the desk listing and for the capacity agent.
C6_UmbralEstricto ==
    /\ \A i \in DOMAIN ESTADO_MESAS :
        _disponible(ESTADO_MESAS, ESTADO_MESAS[i].mesa)
            <=> 100 * ESTADO_MESAS[i].actual < 90 * ESTADO_MESAS[i].max
    /\ Hecha => (~Res.en_cola <=> 100 * Antes[1].actual < 90 * Antes[1].max)
    /\ leido.op = "mesas/estado" =>
        \A i \in DOMAIN leido.cuerpo :
            leido.cuerpo[i].disponible
                <=> 100 * leido.cuerpo[i].actual < 90 * leido.cuerpo[i].max
    /\ leido.op = "capacidad/todas" =>
        \A i \in DOMAIN leido.cuerpo :
            leido.cuerpo[i].disponible
                <=> 100 * leido.cuerpo[i].carga_actual < 90 * leido.cuerpo[i].max_tickets

\* C6 witness: a desk whose load is exactly 90% of its capacity is routed
\* around (the request is queued) and listed as unavailable.
C6_ExactamenteNoventa ==
    /\ 10 * ESTADO_MESAS[1].actual = 9 * ESTADO_MESAS[1].max
    /\ ESTADO_MESAS[1].actual > 0
    /\ Hecha
    /\ Res.en_cola
    /\ leido.op = "mesas/estado"
    /\ ~leido.cuerpo[1].disponible

\* C7 (as claimed): a request with via_historico = true goes to the least
\* loaded available N1 desk if there is one, else to the least loaded available
\* N2 desk if there is one, and is queued on the first N1 desk only when no N1
\* and no N2 desk is available, whatever mesa_historico is.
C7_CascadaHistorica ==
    (Hecha /\ Sol.via_historico) =>
        IF HayLibre(Antes, "N1")
        THEN /\ ~Res.en_cola
             /\ Res.nivel_asignado = "N1"
             /\ MenosCargadaLibre(Antes, "N1", Res.mesa_asignada)
        ELSE IF HayLibre(Antes, "N2")
        THEN /\ ~Res.en_cola
             /\ Res.nivel_asignado = "N2"
             /\ MenosCargadaLibre(Antes, "N2", Res.mesa_asignada)
        ELSE /\ Res.en_cola
             /\ Res.mesa_asignada = "Service Desk 1"

\* C8: a specialist request (no precedent, N3, muy_alta) whose product rule
\* names a desk that is available gets that desk, at N3 and not queued,
\* whatever the other desks' loads are.
C8_Especialista ==
    (Hecha /\ Especialista /\ ReglaLibre) =>
        /\ Res.mesa_asignada = MesaDeRegla
        /\ Res.nivel_asignado = "N3"
        /\ ~Res.en_cola

\* C8 witness: the SCTR desk is given while no N1 desk is available.
C8_SCTRConN1Saturado ==
    /\ Hecha
    /\ Especialista
    /\ ~HayLibre(Antes, "N1")
    /\ Res.mesa_asignada = "Squad - Mesa SCTR"
    /\ Res.nivel_asignado = "N3"
    /\ ~Res.en_cola

\* C9: a specialist request whose product desk is unavailable, or that matches
\* no product rule, gets the least loaded available N2 desk, at N2 and not
\* queued, whenever an N2 desk is available.
C9_EscaladoAN2 ==
    (Hecha /\ Especialista /\ ~ReglaLibre /\ HayLibre(Antes, "N2")) =>
        /\ Res.nivel_asignado = "N2"
        /\ ~Res.en_cola
        /\ MenosCargadaLibre(Antes, "N2", Res.mesa_asignada)

\* C9 witness: the SCTR desk is full and the request goes to the N2 desk.
C9_SCTRSaturada ==
    /\ Hecha
    /\ Especialista
    /\ MesaDeRegla = "Squad - Mesa SCTR"
    /\ ~ReglaLibre
    /\ Res.mesa_asignada = "Squad - Mesa Ongoing"
    /\ ~Res.en_cola

\* The candidate tiers the normal case is claimed to walk.
ListaDeNiveles ==
    IF Sol.nivel_recomendado \in {"N1", "baja", "media"} THEN <<"N1">> ELSE <<"N2", "N1">>

\* The request of the last run reached the normal case: it has no precedent and
\* the specialist branch did not take it or found no desk for it.
EnCasoNormal ==
    /\ ~Sol.via_historico
    /\ Especialista => (~ReglaLibre /\ ~HayLibre(Antes, "N2"))

\* C10: in the normal case the tiers are [N1] for N1/baja/media and [N2, N1]
\* otherwise; the response names the first of them that has an available desk,
\* with its least loaded available desk, not queued.
C10_CasoNormal ==
    (Hecha /\ EnCasoNormal) =>
        \A k \in DOMAIN ListaDeNiveles :
            ( /\ HayLibre(Antes, ListaDeNiveles[k])
              /\ \A j \in 1..(k - 1) : ~HayLibre(Antes, ListaDeNiveles[j]) ) =>
                /\ Res.nivel_asignado = ListaDeNiveles[k]
                /\ ~Res.en_cola
                /\ MenosCargadaLibre(Antes, ListaDeNiveles[k], Res.mesa_asignada)

\* C10 witness: an N2 request finds the N2 desk unavailable and gets the less
\* loaded of two available N1 desks.
C10_DeN2AN1 ==
    /\ Hecha
    /\ EnCasoNormal
    /\ Sol.nivel_recomendado = "N2"
    /\ ~HayLibre(Antes, "N2")
    /\ Libre(Antes[1])
    /\ Libre(Antes[2])
    /\ Antes[2].actual < Antes[1].actual
    /\ Res.mesa_asignada = "Service Desk 2"
    /\ ~Res.en_cola

-----------------------------------------------------------------------------
(* Saturation, the queue and the load. *)

\* The handler has served a request in this step.
Servida == atendida' # atendida \/ restantes' # restantes \/ respuestas' # respuestas

\* The first desk of the tier, in registry order, that no desk of the tier
\* undercuts in load/capacity.
PrimeraMenosCargada(E, nivel) ==
    LET tier == {i \in DOMAIN E : E[i].nivel = nivel}
        minimas == {i \in tier :
                      \A j \in tier : E[i].actual * E[j].max <= E[j].actual * E[i].max}
    IN  E[CHOOSE i \in minimas : \A j \in minimas : i <= j].mesa

\* The cascade found no available desk for the request of the last run: it
\* reached the normal case and no tier of its list has an available desk.
SinLibre ==
    /\ EnCasoNormal
    /\ \A k \in DOMAIN ListaDeNiveles : ~HayLibre(Antes, ListaDeNiveles[k])

\* C11: a request without precedent for which the cascade finds no available
\* desk is answered en_cola = true at N1 on the least loaded N1 desk, the first
\* one in registry order among equals, and the step appends exactly one entry
\* (ticket_id, that desk) to the waiting queue.
C11_SaturacionGlobal ==
    [][ (Servida /\ Hecha' /\ SinLibre') =>
            /\ Res'.en_cola
            /\ Res'.nivel_asignado = "N1"
            /\ Res'.mesa_asignada = PrimeraMenosCargada(ESTADO_MESAS, "N1")
            /\ _COLA' = Append(_COLA, [ticket_id |-> Sol'.ticket_id,
                                        mesa_objetivo |-> Res'.mesa_asignada]) ]_vars

\* C11 witness: with the first N1 desk full and the second one at 90% or more
\* but less loaded, and no N2 desk available, the request is queued on the
\* second N1 desk.
C11_ColaEnMenosCargada ==
    /\ Hecha
    /\ SinLibre
    /\ Antes[1].actual = Antes[1].max
    /\ Antes[2].actual < Antes[1].actual
    /\ Res.en_cola
    /\ Res.mesa_asignada = "Service Desk 2"
    /\ _COLA # <<>>
    /\ _COLA[Len(_COLA)].mesa_objetivo = "Service Desk 2"

\* C12: a response with en_cola = false names a desk whose load was strictly
\* below 90% of its capacity when the handler decided; and a request without
\* precedent is queued only when no tier of its list had an available desk.
C12_SinAsignacionASaturada ==
    /\ (Hecha /\ ~Res.en_cola) =>
            \E i \in DOMAIN Antes : Antes[i].mesa = Res.mesa_asignada /\ Libre(Antes[i])
    /\ (Hecha /\ ~Sol.via_historico /\ Res.en_cola) => SinLibre

\* C12 witness: the first N1 desk is at 90% or more and the request gets the
\* second one, which is available.
C12_EvitaLaSaturada ==
    /\ Hecha
    /\ ~Sol.via_historico
    /\ ~Libre(Antes[1])
    /\ Libre(Antes[2])
    /\ Res.mesa_asignada = "Service Desk 2"
    /\ ~Res.en_cola

-----------------------------------------------------------------------------
(* Properties of the pipeline. *)

\* The pipeline run has returned.
Fin == pipeline.pc = "fin"

\* The call to a collaborator failed: an exception or the body of an HTTP error.
Fallo(r) == r.clase \in {"excepcion", "error_http"}

\* A result with every field of the returned dict, a desk, a tier and a
\* non-empty trace.
Completo(res) ==
    /\ DOMAIN res = {"ticket_id", "mesa_asignada", "nivel_asignado", "en_cola",
                     "complejidad", "score_complejidad", "tiempo_estimado_horas",
                     "categoria_tiempo", "via_historico", "razonamiento"}
    /\ res.mesa_asignada \notin {None, ""}
    /\ res.nivel_asignado \in {"N1", "N2", "N3"}
    /\ res.en_cola \in BOOLEAN
    /\ res.razonamiento # <<>>

\* C13: whatever calls to the Historico, Estimador and Complejidad agents
\* fail, the run reaches its end, having sent its request to the orchestrator,
\* and returns a complete result; a failed Historico leaves via_historico =
\* false, a failed Estimador tiempo_estimado_horas = None and categoria_tiempo
\* = "", a failed Complejidad complejidad = media, score = 50 and
\* nivel_recomendado = N1.
C13_FallosNoAbortan ==
    /\ <>Fin
    /\ [](Fin =>
            /\ pipeline.enviado = SolicitudDe(pipeline)
            /\ Completo(pipeline.resultado)
            /\ Fallo(pipeline.r_hist) =>
                    /\ ~pipeline.resultado.via_historico
                    /\ ~pipeline.enviado.via_historico
                    /\ pipeline.enviado.mesa_historico = None
            /\ Fallo(pipeline.r_est) =>
                    /\ pipeline.resultado.tiempo_estimado_horas = Null
                    /\ pipeline.resultado.categoria_tiempo = ""
            /\ Fallo(pipeline.r_comp) =>
                    /\ pipeline.resultado.complejidad = "media"
                    /\ pipeline.resultado.score_complejidad = 50
                    /\ pipeline.enviado.complejidad = "media"
                    /\ pipeline.enviado.nivel_recomendado = "N1")

\* C13 witness: the three collaborators have failed, the orchestrator has
\* served the request built from the defaults and the run has returned the
\* desk it assigned.
C13_TresFallos ==
    /\ Fin
    /\ pipeline.r_hist.clase = "excepcion"
    /\ pipeline.r_est.clase = "error_http"
    /\ pipeline.r_comp.clase = "excepcion"
    /\ Hecha
    /\ Sol = pipeline.enviado
    /\ pipeline.resultado.mesa_asignada = "Service Desk 2"
    /\ pipeline.resultado.nivel_asignado = "N1"
    /\ ~pipeline.resultado.en_cola

\* The trace holds the segment "<nombre> no disponible: <causa>".
Registra(traza, nombre, causa) ==
    \E i \in 1..(Len(traza) - 1) :
        traza[i] = nombre \o " no disponible: " /\ traza[i + 1] = causa

\* C14 (as claimed): when the call to the Historico, the Estimador or the
\* Complejidad agent has failed with an exception, the trace the run returns
\* holds the segment that names the collaborator and the cause.
C14_TrazaRegistraFallos ==
    Fin =>
        /\ pipeline.r_hist.clase = "excepcion" =>
                Registra(pipeline.resultado.razonamiento, "Historico", pipeline.r_hist.causa)
        /\ pipeline.r_est.clase = "excepcion" =>
                Registra(pipeline.resultado.razonamiento, "Estimador", pipeline.r_est.causa)
        /\ pipeline.r_comp.clase = "excepcion" =>
                Registra(pipeline.resultado.razonamiento, "Complejidad", pipeline.r_comp.causa)

\* q is an initial part of r.
Prefijo(q, r) == Len(q) <= Len(r) /\ SubSeq(r, 1, Len(q)) = q

\* C15: in every step the queue before the step is an initial part of the
\* queue after it (no entry is removed, reordered or modified), and a listing
\* of the queue returns all its entries in order with their number.
C15_ColaSoloCrece ==
    [][ /\ Prefijo(_COLA, _COLA')
        /\ (leido' # leido /\ leido'.op = "cola") =>
                /\ leido'.cuerpo.tickets = _COLA
                /\ leido'.cuerpo.en_cola = Len(_COLA) ]_vars

\* C15 witness: the listing shows two entries, queued one after the other on
\* different desks.
C15_DosEnCola ==
    /\ leido.op = "cola"
    /\ leido.cuerpo.en_cola = 2
    /\ leido.cuerpo.tickets = _COLA
    /\ _COLA[1].mesa_objetivo # _COLA[2].mesa_objetivo

\* min(a, b)
Min(a, b) == IF a <= b THEN a ELSE b

C17_CargaMonotona ==
    /\ [][ \A i \in DOMAIN ESTADO_MESAS :
               /\ ESTADO_MESAS'[i].actual >= ESTADO_MESAS[i].actual
               /\ ESTADO_MESAS'[i].max = ESTADO_MESAS[i].max ]_vars
    /\ [](\A i \in DOMAIN ESTADO_MESAS :
            ESTADO_MESAS[i].actual =
                Min(ESTADO_INICIAL[i].actual
                        + Cuenta(LAMBDA r : r.status = 200 /\ ~r.en_cola
                                            /\ r.mesa_asignada = ESTADO_MESAS[i].mesa),
                    ESTADO_MESAS[i].max))

\* C17 witness: two increments have taken the SCTR desk from 6 to its
\* capacity, 8.
C17_DosIncrementos ==
    \E i \in DOMAIN ESTADO_MESAS :
        /\ ESTADO_MESAS[i].mesa = "Squad - Mesa SCTR"
        /\ ESTADO_MESAS[i].actual = ESTADO_INICIAL[i].actual + 2
        /\ ESTADO_MESAS[i].actual = ESTADO_MESAS[i].max
        /\ Cuenta(LAMBDA r : r.status = 200 /\ ~r.en_cola
                              /\ r.mesa_asignada = "Squad - Mesa SCTR") = 2

-----------------------------------------------------------------------------
(* Properties of the product rules. *)

\* The spellings of a keyword.
Variantes(kw) ==
    CASE kw = "vida ley" -> {"vida ley", "Vida Ley", "VIDA LEY"}
      [] kw = "sctr" -> {"sctr", "Sctr", "SCTR"}
      [] kw = "soat" -> {"soat", "Soat", "SOAT"}
      [] kw = "ecommerce" -> {"ecommerce", "Ecommerce", "ECOMMERCE"}
      [] kw = "digital" -> {"digital", "Digital"}
      [] kw = "web" -> {"web", "Web", "WEB"}
      [] kw = "factura" -> {"factura", "Factura"}
      [] kw = "planilla" -> {"planilla", "Planilla"}
      [] kw = "conciliacion" -> {"conciliacion", "Conciliacion"}

\* The text contains one of the keywords, in any spelling.
Contiene(texto, kws) ==
    \E i \in DOMAIN texto : \E kw \in kws : texto[i] \in Variantes(kw)

Consultado == consulta.estado = "hecha"

\* The rules in the order listed, with their desks.
MesasDeReglas ==
    <<"Squad - Mesa Vida Ley", "Squad - Mesa SCTR", "Squad - Mesa SOAT",
      "soportedigital", "soporteapp">>

PalabrasDeReglas ==
    << {"vida ley"}, {"sctr"}, {"soat"}, {"ecommerce", "digital", "web"},
       {"factura", "planilla", "conciliacion"} >>

\* Rule k matches the consulted texts whatever the reading of its condition:
\* its keyword is in the attention type (for soat, together with ecommerce),
\* or, for the two rules that name a product, in the product.
CoincideSeguro(k) ==
    CASE k \in {1, 2} -> \/ Contiene(consulta.producto, PalabrasDeReglas[k])
                         \/ Contiene(consulta.tipo_sd, PalabrasDeReglas[k])
      [] k = 3 -> /\ \/ Contiene(consulta.producto, {"soat"})
                     \/ Contiene(consulta.tipo_sd, {"soat"})
                  /\ Contiene(consulta.tipo_sd, {"ecommerce"})
      [] OTHER -> Contiene(consulta.tipo_sd, PalabrasDeReglas[k])

\* Rule k can match the consulted texts: one of them has its keyword.
CoincidePosible(k) ==
    \/ Contiene(consulta.producto, PalabrasDeReglas[k])
    \/ Contiene(consulta.tipo_sd, PalabrasDeReglas[k])

\* C18: the rules are tried in the order vida ley, sctr, soat, digital,
\* billing, in any spelling of the keywords: the desk returned is the desk of
\* a rule whose keyword is in the texts and that no matching rule precedes,
\* a matching rule that no rule with a keyword in the texts precedes gives
\* its desk, and None is returned when no keyword is in the texts.
C18_OrdenDeReglas ==
    Consultado =>
        /\ \A k \in 1..5 :
              consulta.mesa = MesasDeReglas[k] =>
                  /\ CoincidePosible(k)
                  /\ \A j \in 1..(k - 1) : ~CoincideSeguro(j)
        /\ \A k \in 1..5 :
              (CoincideSeguro(k) /\ \A j \in 1..(k - 1) : ~CoincidePosible(j))
                  => consulta.mesa = MesasDeReglas[k]
        /\ \A k \in 1..5 :
              CoincideSeguro(k) => \E j \in 1..k : consulta.mesa = MesasDeReglas[j]
        /\ ((\A k \in 1..5 : ~CoincidePosible(k)) => consulta.mesa = None)
        /\ consulta.mesa \in {MesasDeReglas[k] : k \in 1..5} \cup {None}

\* C18 witness: the vida ley rule and the billing rule match the attention
\* type and the sctr rule the product, in spellings with capitals, and the
\* vida ley desk is returned.
C18_VariasCoinciden ==
    /\ Consultado
    /\ consulta.tipo_sd = <<"Planilla", "VIDA LEY">>
    /\ consulta.producto = <<"Sctr">>
    /\ consulta.mesa = "Squad - Mesa Vida Ley"

\* C19: the soat rule fires only with ecommerce context: when the SOAT desk
\* is returned, "soat" is in the texts and "ecommerce" is in the attention
\* type.
C19_SoatSoloConEcommerce ==
    (Consultado /\ consulta.mesa = "Squad - Mesa SOAT") =>
        /\ \/ Contiene(consulta.producto, {"soat"})
           \/ Contiene(consulta.tipo_sd, {"soat"})
        /\ Contiene(consulta.tipo_sd, {"ecommerce"})

-----------------------------------------------------------------------------
(* The reasons of the cascade. *)

\* The last request was decided by asignar_mesa and its reason is the one the
\* response carries (no precedent's desk and no reference resolution).
PorCascada ==
    /\ Hecha
    /\ ~(Sol.via_historico /\ Sol.mesa_historico \notin {None, ""})
    /\ ~(Sol.via_historico /\ Sol.resolucion_referencia \notin {None, ""})

\* C20: every branch of the cascade returns a reason that is not empty and
\* that includes the utilization the chosen desk had when it was chosen.
C20_RazonConCarga ==
    PorCascada =>
        /\ Res.razonamiento.texto # <<>>
        /\ Res.razonamiento.valores =
               <<Redondeo1(_porcentaje(Antes, Res.mesa_asignada))>>

-----------------------------------------------------------------------------
(* The trace of the pipeline. *)

\* The separator of the trace.
Separador == " | "

\* The text has no separator.
SinSeparador(texto) == \A i \in DOMAIN texto : texto[i] # Separador

\* The reasoning the orchestrator call ended with: the text of the answer,
\* nothing when the body has none, the fallback text when the call failed.
RazonDeRuteo == TextoRazon(Get(pipeline.o, "razonamiento", Razon(<<>>, <<>>)))

\* C21: whatever each of the four calls ended in, the trace returned is
\* "Historico: ..." | "Estimado: ..." | "Complejidad: ..." | routing
\* reasoning: three segments without separator that start with their labels,
\* in this order, then the reasoning of the orchestrator call, with the
\* separator between them.
C21_TrazaDeCuatroSegmentos ==
    Fin =>
        \E i, j, k \in DOMAIN pipeline.resultado.razonamiento :
            LET traza == pipeline.resultado.razonamiento
                h == SubSeq(traza, 1, i - 1)
                e == SubSeq(traza, i + 1, j - 1)
                c == SubSeq(traza, j + 1, k - 1)
            IN  /\ i < j /\ j < k
                /\ traza[i] = Separador /\ traza[j] = Separador /\ traza[k] = Separador
                /\ SinSeparador(h) /\ Len(h) >= 2 /\ h[1] = "Historico: "
                /\ SinSeparador(e) /\ Len(e) >= 2 /\ e[1] = "Estimado: "
                /\ SinSeparador(c) /\ Len(c) >= 2 /\ c[1] = "Complejidad: "
                /\ SubSeq(traza, k + 1, Len(traza)) = RazonDeRuteo

\* C21 witness: the three collaborators and the orchestrator have failed and
\* the trace returned has its four segments.
C21_TrazaConTodoCaido ==
    /\ Fin
    /\ pipeline.r_hist.clase = "excepcion"
    /\ pipeline.r_est.clase = "excepcion"
    /\ pipeline.r_comp.clase = "excepcion"
    /\ pipeline.o = OrquestadorCaido("ReadTimeout")
    /\ pipeline.resultado.razonamiento =
          <<"Historico: ", "Historico no disponible: ", pipeline.r_hist.causa,
            " | ", "Estimado: ", "None", "h (", "", ")",
            " | ", "Complejidad: ", "media", " (score=", "50", ")",
            " | ", "Orquestador no disponible: ", "ReadTimeout">>

-----------------------------------------------------------------------------
(* Errors and frames of the orchestrator. *)

\* C22: a request with a precedent whose desk is no key of the registry is
\* answered with an error that carries no assignment, and the step leaves the
\* registry and the queue as they were.
C22_MesaDesconocidaNoCambiaNada ==
    [][ ( /\ Servida
          /\ atendida'.estado = "atendida"
          /\ Sol'.via_historico
          /\ Sol'.mesa_historico \notin {None, ""}
          /\ ~EnRegistro(ESTADO_MESAS, Sol'.mesa_historico) ) =>
            /\ Res'.status = 500
            /\ DOMAIN Res' \cap {"mesa_asignada", "nivel_asignado", "en_cola"} = {}
            /\ ESTADO_MESAS' = ESTADO_MESAS
            /\ _COLA' = _COLA ]_vars

\* C22 witness: after a first request has taken a place on a desk, a request
\* with a precedent on "Mesa Desconocida" has been answered with the error,
\* and the registry is as that request found it.
C22_ErrorPorMesaDesconocida ==
    /\ atendida.estado = "atendida"
    /\ Sol.via_historico
    /\ Sol.mesa_historico = "Mesa Desconocida"
    /\ Res.status = 500
    /\ Res.detail = "KeyError"
    /\ ESTADO_MESAS = Antes
    /\ ESTADO_MESAS # ESTADO_INICIAL
    /\ restantes = 0

-----------------------------------------------------------------------------
(* Properties of the API. *)

\* C23: any two pipeline runs started through the API have different ticket
\* ids.
C23_TicketIdUnico ==
    \A k, l \in DOMAIN api.ejecuciones :
        k # l => api.ejecuciones[k].ticket_id # api.ejecuciones[l].ticket_id

\* The runs of the ticket of envio i that have been served by the orchestrator.
EjecucionesServidas(i) ==
    {k \in DOMAIN api.ejecuciones :
        api.ejecuciones[k].envio = i /\ api.ejecuciones[k].pc = "fin"}

RECURSIVE Suma(_, _)
\* The sum of f[i] over the indexes i of S.
Suma(f, S) ==
    IF S = {} THEN 0
    ELSE LET i == CHOOSE i \in S : TRUE IN f[i] + Suma(f, S \ {i})

\* The places taken on the desks since the start, and the queue entries.
Consumo ==
    Suma([i \in DOMAIN ESTADO_MESAS |-> ESTADO_MESAS[i].actual - ESTADO_INICIAL[i].actual],
         DOMAIN ESTADO_MESAS)
    + Len(_COLA)

\* C24: for each ticket submitted to /tickets/nuevo the orchestrator serves at
\* most one request, so the places taken and queue entries made are never more
\* than the tickets submitted.
C24_AlMasUnaVezPorTicket ==
    /\ \A i \in DOMAIN api.envios : Cardinality(EjecucionesServidas(i)) <= 1
    /\ Consumo <= Len(api.envios)

-----------------------------------------------------------------------------
(* Saturation and selection. *)

\* The last request was decided by asignar_mesa (no precedent's desk).
PorAsignarMesa ==
    /\ atendida.estado = "atendida"
    /\ ~(Sol.via_historico /\ Sol.mesa_historico \notin {None, ""})

\* Every desk of the registry is unavailable.
TodasSaturadas(E) == \A i \in DOMAIN E : ~_disponible(E, E[i].mesa)

\* C25: whatever the request and the loads of the desks, all desks
\* unavailable included, asignar_mesa returns a decision and raises nothing:
\* the request is answered with a desk that is a key of the registry, a tier,
\* the queue flag and a reason.
C25_SaturacionNoEsError ==
    PorAsignarMesa =>
        /\ Res.status = 200
        /\ EnRegistro(Antes, Res.mesa_asignada)
        /\ Res.nivel_asignado \in {"N1", "N2", "N3"}
        /\ Res.en_cola \in BOOLEAN
        /\ Res.razonamiento.texto # <<>>

\* C25 witness: with every desk unavailable, a muy_alta/N3 request for the
\* SCTR product has been answered with a queued place on a desk of the
\* registry.
C25_DecisionConTodoSaturado ==
    /\ PorAsignarMesa
    /\ TodasSaturadas(Antes)
    /\ Sol.nivel_recomendado = "N3" /\ Sol.complejidad = "muy_alta"
    /\ Sol.producto = <<"SCTR">>
    /\ Res.status = 200
    /\ Res.en_cola
    /\ EnRegistro(Antes, Res.mesa_asignada)

\* The available desk of the tier with the smallest load/capacity, the first
\* in registry order among those of equal ratio.
MejorDisponible(E, nivel) ==
    LET libres == {i \in DOMAIN E : E[i].nivel = nivel /\ 100 * E[i].actual < 90 * E[i].max}
        minimas == {i \in libres :
                      \A j \in libres : E[i].actual * E[j].max <= E[j].actual * E[i].max}
    IN  E[CHOOSE i \in minimas : \A j \in minimas : i <= j].mesa

\* C26: the desk the cascade takes in tier N1 or N2 (precedent without desk,
\* escalation of a specialist request, normal case) is the available desk of
\* that tier with the smallest load/capacity, and among equals the one listed
\* first in the registry.
C26_MenorCargaOrdenDeRegistro ==
    (PorAsignarMesa /\ Hecha /\ ~Res.en_cola /\ Res.nivel_asignado \in {"N1", "N2"}) =>
        Res.mesa_asignada = MejorDisponible(Antes, Res.nivel_asignado)

\* C26 witness: the two N1 desks had the same load, below the threshold, and
\* the request has taken a place on the one listed first.
C26_EmpateEnN1 ==
    /\ PorAsignarMesa /\ Hecha /\ ~Res.en_cola
    /\ Res.mesa_asignada = "Service Desk 1"
    /\ Datos(Antes, "Service Desk 1").actual = Datos(Antes, "Service Desk 2").actual
    /\ Datos(ESTADO_MESAS, "Service Desk 1").actual
           = Datos(ESTADO_MESAS, "Service Desk 2").actual + 1

\* C27: every request answered en_cola = true adds one entry to the queue,
\* for the desk returned, also when the queue already has an entry with the
\* same ticket_id: the queue is one longer and its last entry is the new one.
C27_EncolarSinDeduplicar ==
    [][ (Servida /\ Hecha' /\ Res'.en_cola) =>
            /\ Len(_COLA') = Len(_COLA) + 1
            /\ SubSeq(_COLA', 1, Len(_COLA)) = _COLA
            /\ _COLA'[Len(_COLA')].ticket_id = Sol'.ticket_id
            /\ _COLA'[Len(_COLA')].mesa_objetivo = Res'.mesa_asignada ]_vars

\* C27 witness: two requests with the same ticket_id have been queued on the
\* same desk and the queue holds the two equal entries.
C27_DosEntradasIguales ==
    /\ Hecha /\ Res.en_cola
    /\ Len(_COLA) = 2
    /\ _COLA[1] = _COLA[2]
    /\ _COLA[2].ticket_id = Sol.ticket_id
    /\ _COLA[2].mesa_objetivo = Res.mesa_asignada

-----------------------------------------------------------------------------
(* The fields the product rules search. *)

\* Rule k matches on either field: its keyword is in the product or in the
\* attention type (for soat, with ecommerce in the attention type).
CoincideEnAlgunCampo(k) ==
    /\ CoincidePosible(k)
    /\ k = 3 => Contiene(consulta.tipo_sd, {"ecommerce"})

\* C28: every rule matches on either field: the first rule in the order
\* whose keyword is in the product or in the attention type gives its desk.
C28_CualquierCampo ==
    Consultado =>
        \A k \in 1..5 :
            (CoincideEnAlgunCampo(k) /\ \A j \in 1..(k - 1) : ~CoincidePosible(j))
                => consulta.mesa = MesasDeReglas[k]

-----------------------------------------------------------------------------
(* The specialist tier. *)

\* C29: asignar_mesa answers with tier N3 only for a request without
\* precedent whose recommended tier is N3 and whose complexity is muy_alta;
\* every other request it decides is answered with tier N1 or N2.
C29_N3Reservado ==
    (PorAsignarMesa /\ Hecha) =>
        IF ~Sol.via_historico /\ Sol.nivel_recomendado = "N3" /\ Sol.complejidad = "muy_alta"
        THEN Res.nivel_asignado \in {"N1", "N2", "N3"}
        ELSE Res.nivel_asignado \in {"N1", "N2"}

\* C29 witness: a request for the SCTR product with recommended tier N3 and
\* complexity alta has been sent to the N2 desk although the SCTR desk was
\* available.
C29_N3ConAltaVaAN2 ==
    /\ PorAsignarMesa /\ Hecha
    /\ ~Sol.via_historico
    /\ Sol.nivel_recomendado = "N3" /\ Sol.complejidad = "alta"
    /\ Sol.producto = <<"SCTR">>
    /\ _disponible(Antes, "Squad - Mesa SCTR")
    /\ Res.nivel_asignado = "N2"
    /\ ~Res.en_cola

-----------------------------------------------------------------------------
(* The frame of the operations. *)

\* The desks, their tiers, specialities and capacities are the same in E and F.
MismaForma(E, F) ==
    /\ DOMAIN E = DOMAIN F
    /\ \A i \in DOMAIN E :
          /\ E[i].mesa = F[i].mesa
          /\ E[i].nivel = F[i].nivel
          /\ E[i].especialidad = F[i].especialidad
          /\ E[i].max = F[i].max

\* The desks whose load differs between E and F.
Cambiadas(E, F) == {i \in DOMAIN E : E[i].actual # F[i].actual}

\* C30: a step changes the load of at most one desk, by one, and only when
\* it answers an /asignar request with that desk; no step changes the desks,
\* their tiers, specialities or capacities; the steps that read (GET
\* /mesas/estado, GET /cola), and the requests answered with an error or with
\* a queued place, leave the loads as they were, and the reads leave the queue
\* too.
C30_MarcoDeAsignar ==
    [][ /\ MismaForma(ESTADO_MESAS, ESTADO_MESAS')
        /\ Cardinality(Cambiadas(ESTADO_MESAS, ESTADO_MESAS')) <= 1
        /\ \A i \in Cambiadas(ESTADO_MESAS, ESTADO_MESAS') :
              /\ Servida /\ Hecha' /\ ~Res'.en_cola
              /\ ESTADO_MESAS[i].mesa = Res'.mesa_asignada
              /\ ESTADO_MESAS'[i].actual = ESTADO_MESAS[i].actual + 1
        /\ leido' # leido => (ESTADO_MESAS' = ESTADO_MESAS /\ _COLA' = _COLA)
        /\ _COLA' # _COLA => Servida ]_vars

\* C30 witness: after a request has taken a place on a desk, GET /mesas/estado
\* shows the registry with that one load raised by one and everything else as
\* the request found it.
C30_LecturaTrasAsignar ==
    /\ Hecha /\ ~Res.en_cola
    /\ leido.op = "mesas/estado"
    /\ Cardinality(Cambiadas(Antes, ESTADO_MESAS)) = 1
    /\ \A i \in DOMAIN ESTADO_MESAS :
          /\ leido.cuerpo[i].actual = ESTADO_MESAS[i].actual
          /\ leido.cuerpo[i].max = Antes[i].max
          /\ leido.cuerpo[i].actual =
                 Antes[i].actual + (IF Antes[i].mesa = Res.mesa_asignada THEN 1 ELSE 0)


\* The agents a run calls, in the order of the code.
OrdenDeLlamadas == <<"historico", "estimador", "complejidad", "orquestador">>

\* What a response gives for key k: the value of its body, or por_defecto
\* when the call raised or the body has no such key.
Obtenido(r, k, por_defecto) ==
    IF r.clase = "ok" THEN r.cuerpo[k] ELSE por_defecto

ConAntecedente == Obtenido(pipeline.r_hist, "encontrado", FALSE)

\* C32: in a run where the Historico agent reports a precedent
\* (encontrado = true) the Estimador and the Complejidad agents are not
\* called.
C32_SoloSinAntecedente ==
    ConAntecedente =>
        \A i \in DOMAIN pipeline.llamadas :
            pipeline.llamadas[i].agente \notin {"estimador", "complejidad"}

\* C33: a finished run whose result reports desk D with en_cola = false has
\* added exactly one ticket to D's load in the orchestrator's registry, the
\* runs whose orchestrator call failed included.
C33_AsignacionReportadaContada ==
    (/\ Fin
     /\ pipeline.resultado.en_cola = FALSE
     /\ EnRegistro(ESTADO_MESAS, pipeline.resultado.mesa_asignada))
        => Datos(ESTADO_MESAS, pipeline.resultado.mesa_asignada).actual
               = Datos(ESTADO_INICIAL, pipeline.resultado.mesa_asignada).actual + 1

\* Every desk of the tier is unavailable.
NivelSaturado(E, nivel) ==
    \A i \in DOMAIN E : E[i].nivel = nivel => ~(100 * E[i].actual < 90 * E[i].max)

\* C34: whenever asignar_mesa returns en_cola = true, every N1 desk and every
\* N2 desk is unavailable at decision time; a request recommended for N1 is
\* not queued while an N2 desk is available.
C34_ColaSoloConN1yN2Saturados ==
    (PorAsignarMesa /\ Hecha /\ Res.en_cola)
        => (NivelSaturado(Antes, "N1") /\ NivelSaturado(Antes, "N2"))

\* C35: on the loads the started orchestrator reaches through /asignar, every
\* load L of a desk of capacity max satisfies 100 * (L - 1) < 90 * max, so
\* L <= max and the increment that made it was never cut by the min(); an N1
\* desk (capacity 20) never goes over 18.
C35_CargaBajoElUmbralMasUno ==
    /\ \A i \in DOMAIN ESTADO_MESAS :
           /\ 100 * (ESTADO_MESAS[i].actual - 1) < UMBRAL * ESTADO_MESAS[i].max
           /\ ESTADO_MESAS[i].actual <= ESTADO_MESAS[i].max
           /\ ESTADO_MESAS[i].nivel = "N1" => ESTADO_MESAS[i].actual <= 18
    /\ (Hecha /\ ~Res.en_cola /\ EnRegistro(Antes, Res.mesa_asignada)) =>
           Datos(Antes, Res.mesa_asignada).actual + 1
               <= Datos(Antes, Res.mesa_asignada).max

\* C35 witness: an assignment takes Service Desk 1 from 17 to 18, and the
\* SCTR desk is at its capacity 8.
C35_N1En18 ==
    /\ Hecha
    /\ ~Res.en_cola
    /\ Res.mesa_asignada = "Service Desk 1"
    /\ Datos(Antes, "Service Desk 1").actual = 17
    /\ Datos(ESTADO_MESAS, "Service Desk 1").actual = 18
    /\ Datos(ESTADO_MESAS, "Squad - Mesa SCTR").actual = 8

\* The last request served had no precedent and a recommended tier of N1.
ServidaN1SinAntecedente ==
    /\ Hecha
    /\ ~Sol.via_historico
    /\ Sol.nivel_recomendado \in {"N1", "baja", "media"}

\* C36: saturation is absorbing.  A desk that is unavailable stays
\* unavailable in every step; a step that queues a ticket takes no place on
\* any desk and no step removes a queue entry, so a queued ticket is never
\* assigned later; and once a request without precedent recommended for N1 has
\* been queued, every such request served later is queued too.
C36_SaturacionAbsorbente ==
    /\ [][ /\ \A i \in DOMAIN ESTADO_MESAS :
                  ~Libre(ESTADO_MESAS[i]) => ~Libre(ESTADO_MESAS'[i])
           /\ Prefijo(_COLA, _COLA')
           /\ (Servida /\ Hecha' /\ Res'.en_cola) => ESTADO_MESAS' = ESTADO_MESAS
           /\ (ServidaN1SinAntecedente /\ Res.en_cola /\ Servida /\ ServidaN1SinAntecedente')
                  => Res'.en_cola ]_vars
    /\ []((ServidaN1SinAntecedente /\ Res.en_cola)
             => [](ServidaN1SinAntecedente => Res.en_cola))

\* C36 witness: two requests recommended for N1 have been queued one after
\* the other on the saturated N1 tier, the N2 desk still being available.
C36_DosEnColaSeguidas ==
    /\ ServidaN1SinAntecedente
    /\ Res.en_cola
    /\ Len(_COLA) = 2
    /\ ~HayLibre(ESTADO_MESAS, "N1")
    /\ HayLibre(ESTADO_MESAS, "N2")
    /\ ESTADO_MESAS = Antes

\* C37: every /asignar answer that names a desk of the registry carries as
\* nivel_asignado the tier the registry configures for that desk, in every
\* branch: the cascade, the hard-coded Service Desk 1 of the saturated
\* precedent, the global fallback and the direct path of a precedent that
\* names its desk; the desks the product rules name are all of tier N3.
C37_NivelDeLaMesa ==
    /\ (Hecha /\ EnRegistro(Antes, Res.mesa_asignada)) =>
           Res.nivel_asignado = Datos(Antes, Res.mesa_asignada).nivel
    /\ \A k \in DOMAIN MesasDeReglas :
           /\ EnRegistro(ESTADO_MESAS, MesasDeReglas[k])
           /\ Datos(ESTADO_MESAS, MesasDeReglas[k]).nivel = "N3"

\* C37 witness: a precedent that names the SCTR desk is answered on the
\* direct path with the tier N3 of that desk, after an earlier request.
C37_DirectoAN3 ==
    /\ Hecha
    /\ Sol.via_historico
    /\ Sol.mesa_historico = "Squad - Mesa SCTR"
    /\ Res.mesa_asignada = "Squad - Mesa SCTR"
    /\ Res.nivel_asignado = "N3"
    /\ restantes = 0

\* The ticket of the evaluation has been evaluated.
Evaluada == consulta.estado = "evaluada"

\* C38: evaluar_complejidad returns a score between 0 and 100 and a category
\* and a tier that the score alone decides: baja/N1 up to 35, media/N1 up to
\* 60, alta/N2 up to 80, muy_alta/N3 above; the tier is N3 exactly when the
\* category is muy_alta.
C38_CategoriaPorPuntaje ==
    Evaluada =>
        /\ consulta.resultado.score \in 0..100
        /\ <<consulta.resultado.complejidad, consulta.resultado.nivel_recomendado>>
               = (CASE consulta.resultado.score \in 0..35 -> <<"baja", "N1">>
                    [] consulta.resultado.score \in 36..60 -> <<"media", "N1">>
                    [] consulta.resultado.score \in 61..80 -> <<"alta", "N2">>
                    [] OTHER -> <<"muy_alta", "N3">>)
        /\ (consulta.resultado.nivel_recomendado = "N3")
               <=> (consulta.resultado.complejidad = "muy_alta")

\* C38 witness: a ticket whose terms sum to more than 100 is evaluated with
\* the score 100, muy_alta and N3.
C38_PuntajeAcotado ==
    /\ Evaluada
    /\ Puntaje(consulta.ticket) > 100
    /\ consulta.resultado.score = 100
    /\ consulta.resultado.complejidad = "muy_alta"
    /\ consulta.resultado.nivel_recomendado = "N3"

\* C39: after any sequence of /actualizar/{mesa_id} calls, with any integer
\* incremento, every carga_actual of the capacity agent is a non-negative
\* integer not above max_tickets; a call for an unknown mesa_id is rejected
\* with 404 and leaves the registry as it found it.
C39_CargaEnRango ==
    /\ \A i \in DOMAIN ESTADO_CAPACIDAD :
           ESTADO_CAPACIDAD[i].carga_actual \in 0..ESTADO_CAPACIDAD[i].max_tickets
    /\ (atendida.estado = "actualizada" /\ atendida.mesa_id = "Mesa Desconocida") =>
           /\ atendida.respuesta.status = 404
           /\ ESTADO_CAPACIDAD = atendida.antes
====
